---- MODULE Spec2Model ----
(***************************************************************************)
(* Model of backend/server.py: the health-score calculator, the            *)
(* OpenFoodFacts search / barcode resolution and the HTTP routes on top.   *)
(*                                                                         *)
(* Numbers.  Nutrient values and scores are floats in the source.  They    *)
(* are modelled in fixed point: energy in tenths of a kcal, every other    *)
(* nutrient in hundredths of a gram, and a score in hundredths of a point  *)
(* ("centipoints"), so that 79.96 is 7996.  Fixed point gives the exact    *)
(* decimal value of a score; the source computes it in binary floating     *)
(* point, which can lie just below or just above that value.  The side     *)
(* shows only when the exact value is a band boundary or a rounding tie,   *)
(* and there the model takes either side (FloatDeviations).                *)
(*                                                                         *)
(* Strings.  A string is a sequence of one-character strings, so that      *)
(* lower() and the `in` substring test are computed, not assumed.          *)
(***************************************************************************)
EXTENDS Integers, Sequences, FiniteSets, TLC

VARIABLES
    pc,        \* position of the request being handled
    sIn,       \* arguments of calculate_health_score
    sOut,      \* its return value (score, rating), None before the call
    req,       \* FoodSearchRequest (query, limit) or the barcode looked up
    calls,     \* upstream requests sent so far, oldest first
    indian_products,  \* search_products: the regional result list
    indian_reply,     \* what the regional source answered (kept for reference)
    global_reply,     \* what the global source answered
    result,    \* return value of search_products / get_product_by_barcode
    http,      \* status code and body of the route's response
    raw,       \* _search_with_url: the upstream records still to be parsed
    parsed,    \* _search_with_url: the products parsed so far
    next_uuid, \* how many times uuid.uuid4() has been called, plus one
    qIn,       \* argument of _enhance_indian_query
    qOut,      \* the search terms sent to each source for it so far, None before
    searches,  \* concurrent search_products calls: the locals of each
    food_tracking,  \* the documents of db.food_tracking, in insertion order
    clock,     \* datetime.utcnow() as stored, in milliseconds
    inflight   \* the requests of the tracking routes in flight, by slot

vars == <<pc, sIn, sOut, req, calls, indian_products, indian_reply, global_reply, result, http,
          raw, parsed, next_uuid, qIn, qOut, searches, food_tracking, clock,
          inflight>>

parseVars == <<raw, parsed, next_uuid>>
scoreVars == <<sIn, sOut>>
serviceVars == <<req, calls, indian_products, indian_reply, global_reply, result, http>>
queryVars == <<qIn, qOut>>
trackVars == <<food_tracking, clock, inflight>>
restVars == <<queryVars, searches, trackVars>>

\* Optional[T]: None is the empty tuple and a present value v is <<v>>
None == <<>>
Some(v) == <<v>>

\* no request has been received yet
Idle ==
    /\ req = None
    /\ calls = <<>>
    /\ indian_products = <<>>
    /\ indian_reply = None
    /\ global_reply = None
    /\ result = None
    /\ http = None

\* no upstream body is being parsed
NoParse ==
    /\ raw = <<>>
    /\ parsed = <<>>
    /\ next_uuid = 1

\* no query is being rewritten
NoQuery ==
    /\ qIn = None
    /\ qOut = None

\* no concurrent searches
NoSearches == searches = <<>>

\* The requests of the tracking routes in flight: each holds what its
\* handler holds, the route (op), how far it has come (stage: called when
\* the operation of the store is awaited, served when the store has carried
\* it out), its arguments, the entry track_food built, the documents the
\* store returned and the deleted_count it reported.
MaxPending == 2        \* requests of the tracking routes in flight together
Slots == 1..MaxPending

IdleSlot ==
    [op |-> "idle", stage |-> "idle", user_id |-> "", entry_id |-> <<>>, limit |-> None,
     entry |-> None, docs |-> <<>>, deleted_count |-> 0]

\* an empty collection and no request of the tracking routes
NoTracking ==
    /\ food_tracking = <<>>
    /\ clock = 0
    /\ inflight = [s \in Slots |-> IdleSlot]

(***************************************************************************)
(* Bounds of the model.                                                    *)
(***************************************************************************)
MaxAdditives == 8      \* longest additive list scored
MaxLimit == 3          \* largest `limit` of a search request
MaxRegional == 5       \* most records the regional source returns
MaxGlobal == 2         \* most records the global source returns

(***************************************************************************)
(* Strings                                                                 *)
(***************************************************************************)
\* A string is the sequence of its characters.  A character is a string of
\* one character; a character that a module cannot spell (the grave accent,
\* and beyond U+00FF every character whose code point ends in a byte below
\* 0x80) is the string of its code point instead: "U+0253", "U+2003",
\* "U+10400".
\*
\* The characters str.lower() replaces by one other character (the case
\* tables of CPython 3.11, Unicode 14.0) ...
Capitals ==
    <<"A", "B", "C", "D", "E", "F", "G", "H", "I", "J", "K", "L", "M", "N",
      "O", "P", "Q", "R", "S", "T", "U", "V", "W", "X", "Y", "Z", "À", "Á",
      "Â", "Ã", "Ä", "Å", "Æ", "Ç", "È", "É", "Ê", "Ë", "Ì", "Í", "Î", "Ï",
      "Ð", "Ñ", "Ò", "Ó", "Ô", "Õ", "Ö", "Ø", "Ù", "Ú", "Û", "Ü", "Ý", "Þ",
      "U+0100", "U+0102", "U+0104", "U+0106", "U+0108", "U+010A", "U+010C",
      "U+010E", "U+0110", "U+0112", "U+0114", "U+0116", "U+0118", "U+011A",
      "U+011C", "U+011E", "U+0120", "U+0122", "U+0124", "U+0126", "U+0128",
      "U+012A", "U+012C", "U+012E", "U+0132", "U+0134", "U+0136", "U+0139",
      "U+013B", "U+013D", "U+013F", "U+0141", "U+0143", "U+0145", "U+0147",
      "U+014A", "U+014C", "U+014E", "U+0150", "U+0152", "U+0154", "U+0156",
      "U+0158", "U+015A", "U+015C", "U+015E", "U+0160", "U+0162", "U+0164",
      "U+0166", "U+0168", "U+016A", "U+016C", "U+016E", "U+0170", "U+0172",
      "U+0174", "U+0176", "U+0178", "U+0179", "U+017B", "U+017D", "Ɓ", "Ƃ",
      "Ƅ", "Ɔ", "Ƈ", "Ɖ", "Ɗ", "Ƌ", "Ǝ", "Ə", "Ɛ", "Ƒ", "Ɠ", "Ɣ", "Ɩ", "Ɨ",
      "Ƙ", "Ɯ", "Ɲ", "Ɵ", "Ơ", "Ƣ", "Ƥ", "Ʀ", "Ƨ", "Ʃ", "Ƭ", "Ʈ", "Ư", "Ʊ",
      "Ʋ", "Ƴ", "Ƶ", "Ʒ", "Ƹ", "Ƽ", "Ǆ", "ǅ", "Ǉ", "ǈ", "Ǌ", "ǋ", "Ǎ", "Ǐ",
      "Ǒ", "Ǔ", "Ǖ", "Ǘ", "Ǚ", "Ǜ", "Ǟ", "Ǡ", "Ǣ", "Ǥ", "Ǧ", "Ǩ", "Ǫ", "Ǭ",
      "Ǯ", "Ǳ", "ǲ", "Ǵ", "Ƕ", "Ƿ", "Ǹ", "Ǻ", "Ǽ", "Ǿ", "U+0200", "U+0202",
      "U+0204", "U+0206", "U+0208", "U+020A", "U+020C", "U+020E", "U+0210",
      "U+0212", "U+0214", "U+0216", "U+0218", "U+021A", "U+021C", "U+021E",
      "U+0220", "U+0222", "U+0224", "U+0226", "U+0228", "U+022A", "U+022C",
      "U+022E", "U+0230", "U+0232", "U+023A", "U+023B", "U+023D", "U+023E",
      "U+0241", "U+0243", "U+0244", "U+0245", "U+0246", "U+0248", "U+024A",
      "U+024C", "U+024E", "U+0370", "U+0372", "U+0376", "U+037F", "Ά", "Έ",
      "Ή", "Ί", "Ό", "Ύ", "Ώ", "Α", "Β", "Γ", "Δ", "Ε", "Ζ", "Η", "Θ", "Ι",
      "Κ", "Λ", "Μ", "Ν", "Ξ", "Ο", "Π", "Ρ", "Σ", "Τ", "Υ", "Φ", "Χ", "Ψ",
      "Ω", "Ϊ", "Ϋ", "Ϗ", "Ϙ", "Ϛ", "Ϝ", "Ϟ", "Ϡ", "Ϣ", "Ϥ", "Ϧ", "Ϩ", "Ϫ",
      "Ϭ", "Ϯ", "ϴ", "Ϸ", "Ϲ", "Ϻ", "Ͻ", "Ͼ", "Ͽ", "U+0400", "U+0401",
      "U+0402", "U+0403", "U+0404", "U+0405", "U+0406", "U+0407", "U+0408",
      "U+0409", "U+040A", "U+040B", "U+040C", "U+040D", "U+040E", "U+040F",
      "U+0410", "U+0411", "U+0412", "U+0413", "U+0414", "U+0415", "U+0416",
      "U+0417", "U+0418", "U+0419", "U+041A", "U+041B", "U+041C", "U+041D",
      "U+041E", "U+041F", "U+0420", "U+0421", "U+0422", "U+0423", "U+0424",
      "U+0425", "U+0426", "U+0427", "U+0428", "U+0429", "U+042A", "U+042B",
      "U+042C", "U+042D", "U+042E", "U+042F", "U+0460", "U+0462", "U+0464",
      "U+0466", "U+0468", "U+046A", "U+046C", "U+046E", "U+0470", "U+0472",
      "U+0474", "U+0476", "U+0478", "U+047A", "U+047C", "U+047E", "Ҁ", "Ҋ",
      "Ҍ", "Ҏ", "Ґ", "Ғ", "Ҕ", "Җ", "Ҙ", "Қ", "Ҝ", "Ҟ", "Ҡ", "Ң", "Ҥ", "Ҧ",
      "Ҩ", "Ҫ", "Ҭ", "Ү", "Ұ", "Ҳ", "Ҵ", "Ҷ", "Ҹ", "Һ", "Ҽ", "Ҿ", "Ӏ", "Ӂ",
      "Ӄ", "Ӆ", "Ӈ", "Ӊ", "Ӌ", "Ӎ", "Ӑ", "Ӓ", "Ӕ", "Ӗ", "Ә", "Ӛ", "Ӝ", "Ӟ",
      "Ӡ", "Ӣ", "Ӥ", "Ӧ", "Ө", "Ӫ", "Ӭ", "Ӯ", "Ӱ", "Ӳ", "Ӵ", "Ӷ", "Ӹ", "Ӻ",
      "Ӽ", "Ӿ", "U+0500", "U+0502", "U+0504", "U+0506", "U+0508", "U+050A",
      "U+050C", "U+050E", "U+0510", "U+0512", "U+0514", "U+0516", "U+0518",
      "U+051A", "U+051C", "U+051E", "U+0520", "U+0522", "U+0524", "U+0526",
      "U+0528", "U+052A", "U+052C", "U+052E", "U+0531", "U+0532", "U+0533",
      "U+0534", "U+0535", "U+0536", "U+0537", "U+0538", "U+0539", "U+053A",
      "U+053B", "U+053C", "U+053D", "U+053E", "U+053F", "U+0540", "U+0541",
      "U+0542", "U+0543", "U+0544", "U+0545", "U+0546", "U+0547", "U+0548",
      "U+0549", "U+054A", "U+054B", "U+054C", "U+054D", "U+054E", "U+054F",
      "U+0550", "U+0551", "U+0552", "U+0553", "U+0554", "U+0555", "U+0556",
      "Ⴀ", "Ⴁ", "Ⴂ", "Ⴃ", "Ⴄ", "Ⴅ", "Ⴆ", "Ⴇ", "Ⴈ", "Ⴉ", "Ⴊ", "Ⴋ", "Ⴌ", "Ⴍ",
      "Ⴎ", "Ⴏ", "Ⴐ", "Ⴑ", "Ⴒ", "Ⴓ", "Ⴔ", "Ⴕ", "Ⴖ", "Ⴗ", "Ⴘ", "Ⴙ", "Ⴚ", "Ⴛ",
      "Ⴜ", "Ⴝ", "Ⴞ", "Ⴟ", "Ⴠ", "Ⴡ", "Ⴢ", "Ⴣ", "Ⴤ", "Ⴥ", "Ⴧ", "Ⴭ", "Ꭰ", "Ꭱ",
      "Ꭲ", "Ꭳ", "Ꭴ", "Ꭵ", "Ꭶ", "Ꭷ", "Ꭸ", "Ꭹ", "Ꭺ", "Ꭻ", "Ꭼ", "Ꭽ", "Ꭾ", "Ꭿ",
      "Ꮀ", "Ꮁ", "Ꮂ", "Ꮃ", "Ꮄ", "Ꮅ", "Ꮆ", "Ꮇ", "Ꮈ", "Ꮉ", "Ꮊ", "Ꮋ", "Ꮌ", "Ꮍ",
      "Ꮎ", "Ꮏ", "Ꮐ", "Ꮑ", "Ꮒ", "Ꮓ", "Ꮔ", "Ꮕ", "Ꮖ", "Ꮗ", "Ꮘ", "Ꮙ", "Ꮚ", "Ꮛ",
      "Ꮜ", "Ꮝ", "Ꮞ", "Ꮟ", "Ꮠ", "Ꮡ", "Ꮢ", "Ꮣ", "Ꮤ", "Ꮥ", "Ꮦ", "Ꮧ", "Ꮨ", "Ꮩ",
      "Ꮪ", "Ꮫ", "Ꮬ", "Ꮭ", "Ꮮ", "Ꮯ", "Ꮰ", "Ꮱ", "Ꮲ", "Ꮳ", "Ꮴ", "Ꮵ", "Ꮶ", "Ꮷ",
      "Ꮸ", "Ꮹ", "Ꮺ", "Ꮻ", "Ꮼ", "Ꮽ", "Ꮾ", "Ꮿ", "Ᏸ", "Ᏹ", "Ᏺ", "Ᏻ", "Ᏼ", "Ᏽ",
      "Ა", "Ბ", "Გ", "Დ", "Ე", "Ვ", "Ზ", "Თ", "Ი", "Კ", "Ლ", "Მ", "Ნ", "Ო",
      "Პ", "Ჟ", "Რ", "Ს", "Ტ", "Უ", "Ფ", "Ქ", "Ღ", "Ყ", "Შ", "Ჩ", "Ც", "Ძ",
      "Წ", "Ჭ", "Ხ", "Ჯ", "Ჰ", "Ჱ", "Ჲ", "Ჳ", "Ჴ", "Ჵ", "Ჶ", "Ჷ", "Ჸ", "Ჹ",
      "Ჺ", "Ჽ", "Ჾ", "Ჿ", "U+1E00", "U+1E02", "U+1E04", "U+1E06", "U+1E08",
      "U+1E0A", "U+1E0C", "U+1E0E", "U+1E10", "U+1E12", "U+1E14", "U+1E16",
      "U+1E18", "U+1E1A", "U+1E1C", "U+1E1E", "U+1E20", "U+1E22", "U+1E24",
      "U+1E26", "U+1E28", "U+1E2A", "U+1E2C", "U+1E2E", "U+1E30", "U+1E32",
      "U+1E34", "U+1E36", "U+1E38", "U+1E3A", "U+1E3C", "U+1E3E", "U+1E40",
      "U+1E42", "U+1E44", "U+1E46", "U+1E48", "U+1E4A", "U+1E4C", "U+1E4E",
      "U+1E50", "U+1E52", "U+1E54", "U+1E56", "U+1E58", "U+1E5A", "U+1E5C",
      "U+1E5E", "U+1E60", "U+1E62", "U+1E64", "U+1E66", "U+1E68", "U+1E6A",
      "U+1E6C", "U+1E6E", "U+1E70", "U+1E72", "U+1E74", "U+1E76", "U+1E78",
      "U+1E7A", "U+1E7C", "U+1E7E", "Ẁ", "Ẃ", "Ẅ", "Ẇ", "Ẉ", "Ẋ", "Ẍ", "Ẏ",
      "Ẑ", "Ẓ", "Ẕ", "ẞ", "Ạ", "Ả", "Ấ", "Ầ", "Ẩ", "Ẫ", "Ậ", "Ắ", "Ằ", "Ẳ",
      "Ẵ", "Ặ", "Ẹ", "Ẻ", "Ẽ", "Ế", "Ề", "Ể", "Ễ", "Ệ", "Ỉ", "Ị", "Ọ", "Ỏ",
      "Ố", "Ồ", "Ổ", "Ỗ", "Ộ", "Ớ", "Ờ", "Ở", "Ỡ", "Ợ", "Ụ", "Ủ", "Ứ", "Ừ",
      "Ử", "Ữ", "Ự", "Ỳ", "Ỵ", "Ỷ", "Ỹ", "Ỻ", "Ỽ", "Ỿ", "U+1F08", "U+1F09",
      "U+1F0A", "U+1F0B", "U+1F0C", "U+1F0D", "U+1F0E", "U+1F0F", "U+1F18",
      "U+1F19", "U+1F1A", "U+1F1B", "U+1F1C", "U+1F1D", "U+1F28", "U+1F29",
      "U+1F2A", "U+1F2B", "U+1F2C", "U+1F2D", "U+1F2E", "U+1F2F", "U+1F38",
      "U+1F39", "U+1F3A", "U+1F3B", "U+1F3C", "U+1F3D", "U+1F3E", "U+1F3F",
      "U+1F48", "U+1F49", "U+1F4A", "U+1F4B", "U+1F4C", "U+1F4D", "U+1F59",
      "U+1F5B", "U+1F5D", "U+1F5F", "U+1F68", "U+1F69", "U+1F6A", "U+1F6B",
      "U+1F6C", "U+1F6D", "U+1F6E", "U+1F6F", "ᾈ", "ᾉ", "ᾊ", "ᾋ", "ᾌ", "ᾍ",
      "ᾎ", "ᾏ", "ᾘ", "ᾙ", "ᾚ", "ᾛ", "ᾜ", "ᾝ", "ᾞ", "ᾟ", "ᾨ", "ᾩ", "ᾪ", "ᾫ",
      "ᾬ", "ᾭ", "ᾮ", "ᾯ", "Ᾰ", "Ᾱ", "Ὰ", "Ά", "ᾼ", "Ὲ", "Έ", "Ὴ", "Ή", "ῌ",
      "Ῐ", "Ῑ", "Ὶ", "Ί", "Ῠ", "Ῡ", "Ὺ", "Ύ", "Ῥ", "Ὸ", "Ό", "Ὼ", "Ώ", "ῼ",
      "U+2126", "U+212A", "U+212B", "U+2132", "U+2160", "U+2161", "U+2162",
      "U+2163", "U+2164", "U+2165", "U+2166", "U+2167", "U+2168", "U+2169",
      "U+216A", "U+216B", "U+216C", "U+216D", "U+216E", "U+216F", "Ↄ", "Ⓐ",
      "Ⓑ", "Ⓒ", "Ⓓ", "Ⓔ", "Ⓕ", "Ⓖ", "Ⓗ", "Ⓘ", "Ⓙ", "Ⓚ", "Ⓛ", "Ⓜ", "Ⓝ", "Ⓞ",
      "Ⓟ", "Ⓠ", "Ⓡ", "Ⓢ", "Ⓣ", "Ⓤ", "Ⓥ", "Ⓦ", "Ⓧ", "Ⓨ", "Ⓩ", "U+2C00",
      "U+2C01", "U+2C02", "U+2C03", "U+2C04", "U+2C05", "U+2C06", "U+2C07",
      "U+2C08", "U+2C09", "U+2C0A", "U+2C0B", "U+2C0C", "U+2C0D", "U+2C0E",
      "U+2C0F", "U+2C10", "U+2C11", "U+2C12", "U+2C13", "U+2C14", "U+2C15",
      "U+2C16", "U+2C17", "U+2C18", "U+2C19", "U+2C1A", "U+2C1B", "U+2C1C",
      "U+2C1D", "U+2C1E", "U+2C1F", "U+2C20", "U+2C21", "U+2C22", "U+2C23",
      "U+2C24", "U+2C25", "U+2C26", "U+2C27", "U+2C28", "U+2C29", "U+2C2A",
      "U+2C2B", "U+2C2C", "U+2C2D", "U+2C2E", "U+2C2F", "U+2C60", "U+2C62",
      "U+2C63", "U+2C64", "U+2C67", "U+2C69", "U+2C6B", "U+2C6D", "U+2C6E",
      "U+2C6F", "U+2C70", "U+2C72", "U+2C75", "U+2C7E", "U+2C7F", "Ⲁ", "Ⲃ",
      "Ⲅ", "Ⲇ", "Ⲉ", "Ⲋ", "Ⲍ", "Ⲏ", "Ⲑ", "Ⲓ", "Ⲕ", "Ⲗ", "Ⲙ", "Ⲛ", "Ⲝ", "Ⲟ",
      "Ⲡ", "Ⲣ", "Ⲥ", "Ⲧ", "Ⲩ", "Ⲫ", "Ⲭ", "Ⲯ", "Ⲱ", "Ⲳ", "Ⲵ", "Ⲷ", "Ⲹ", "Ⲻ",
      "Ⲽ", "Ⲿ", "Ⳁ", "Ⳃ", "Ⳅ", "Ⳇ", "Ⳉ", "Ⳋ", "Ⳍ", "Ⳏ", "Ⳑ", "Ⳓ", "Ⳕ", "Ⳗ",
      "Ⳙ", "Ⳛ", "Ⳝ", "Ⳟ", "Ⳡ", "Ⳣ", "Ⳬ", "Ⳮ", "Ⳳ", "U+A640", "U+A642",
      "U+A644", "U+A646", "U+A648", "U+A64A", "U+A64C", "U+A64E", "U+A650",
      "U+A652", "U+A654", "U+A656", "U+A658", "U+A65A", "U+A65C", "U+A65E",
      "U+A660", "U+A662", "U+A664", "U+A666", "U+A668", "U+A66A", "U+A66C",
      "Ꚁ", "Ꚃ", "Ꚅ", "Ꚇ", "Ꚉ", "Ꚋ", "Ꚍ", "Ꚏ", "Ꚑ", "Ꚓ", "Ꚕ", "Ꚗ", "Ꚙ", "Ꚛ",
      "U+A722", "U+A724", "U+A726", "U+A728", "U+A72A", "U+A72C", "U+A72E",
      "U+A732", "U+A734", "U+A736", "U+A738", "U+A73A", "U+A73C", "U+A73E",
      "U+A740", "U+A742", "U+A744", "U+A746", "U+A748", "U+A74A", "U+A74C",
      "U+A74E", "U+A750", "U+A752", "U+A754", "U+A756", "U+A758", "U+A75A",
      "U+A75C", "U+A75E", "U+A760", "U+A762", "U+A764", "U+A766", "U+A768",
      "U+A76A", "U+A76C", "U+A76E", "U+A779", "U+A77B", "U+A77D", "U+A77E",
      "Ꞁ", "Ꞃ", "Ꞅ", "Ꞇ", "Ꞌ", "Ɥ", "Ꞑ", "Ꞓ", "Ꞗ", "Ꞙ", "Ꞛ", "Ꞝ", "Ꞟ", "Ꞡ",
      "Ꞣ", "Ꞥ", "Ꞧ", "Ꞩ", "Ɦ", "Ɜ", "Ɡ", "Ɬ", "Ɪ", "Ʞ", "Ʇ", "Ʝ", "Ꭓ", "Ꞵ",
      "Ꞷ", "Ꞹ", "Ꞻ", "Ꞽ", "Ꞿ", "Ꟁ", "Ꟃ", "Ꞔ", "Ʂ", "Ᶎ", "Ꟈ", "Ꟊ", "Ꟑ", "Ꟗ",
      "Ꟙ", "Ꟶ", "U+FF21", "U+FF22", "U+FF23", "U+FF24", "U+FF25", "U+FF26",
      "U+FF27", "U+FF28", "U+FF29", "U+FF2A", "U+FF2B", "U+FF2C", "U+FF2D",
      "U+FF2E", "U+FF2F", "U+FF30", "U+FF31", "U+FF32", "U+FF33", "U+FF34",
      "U+FF35", "U+FF36", "U+FF37", "U+FF38", "U+FF39", "U+FF3A", "U+10400",
      "U+10401", "U+10402", "U+10403", "U+10404", "U+10405", "U+10406",
      "U+10407", "U+10408", "U+10409", "U+1040A", "U+1040B", "U+1040C",
      "U+1040D", "U+1040E", "U+1040F", "U+10410", "U+10411", "U+10412",
      "U+10413", "U+10414", "U+10415", "U+10416", "U+10417", "U+10418",
      "U+10419", "U+1041A", "U+1041B", "U+1041C", "U+1041D", "U+1041E",
      "U+1041F", "U+10420", "U+10421", "U+10422", "U+10423", "U+10424",
      "U+10425", "U+10426", "U+10427", "U+104B0", "U+104B1", "U+104B2",
      "U+104B3", "U+104B4", "U+104B5", "U+104B6", "U+104B7", "U+104B8",
      "U+104B9", "U+104BA", "U+104BB", "U+104BC", "U+104BD", "U+104BE",
      "U+104BF", "U+104C0", "U+104C1", "U+104C2", "U+104C3", "U+104C4",
      "U+104C5", "U+104C6", "U+104C7", "U+104C8", "U+104C9", "U+104CA",
      "U+104CB", "U+104CC", "U+104CD", "U+104CE", "U+104CF", "U+104D0",
      "U+104D1", "U+104D2", "U+104D3", "U+10570", "U+10571", "U+10572",
      "U+10573", "U+10574", "U+10575", "U+10576", "U+10577", "U+10578",
      "U+10579", "U+1057A", "U+1057C", "U+1057D", "U+1057E", "U+1057F",
      "U+10580", "U+10581", "U+10582", "U+10583", "U+10584", "U+10585",
      "U+10586", "U+10587", "U+10588", "U+10589", "U+1058A", "U+1058C",
      "U+1058D", "U+1058E", "U+1058F", "U+10590", "U+10591", "U+10592",
      "U+10594", "U+10595", "U+10C80", "U+10C81", "U+10C82", "U+10C83",
      "U+10C84", "U+10C85", "U+10C86", "U+10C87", "U+10C88", "U+10C89",
      "U+10C8A", "U+10C8B", "U+10C8C", "U+10C8D", "U+10C8E", "U+10C8F",
      "U+10C90", "U+10C91", "U+10C92", "U+10C93", "U+10C94", "U+10C95",
      "U+10C96", "U+10C97", "U+10C98", "U+10C99", "U+10C9A", "U+10C9B",
      "U+10C9C", "U+10C9D", "U+10C9E", "U+10C9F", "U+10CA0", "U+10CA1",
      "U+10CA2", "U+10CA3", "U+10CA4", "U+10CA5", "U+10CA6", "U+10CA7",
      "U+10CA8", "U+10CA9", "U+10CAA", "U+10CAB", "U+10CAC", "U+10CAD",
      "U+10CAE", "U+10CAF", "U+10CB0", "U+10CB1", "U+10CB2", "U+118A0",
      "U+118A1", "U+118A2", "U+118A3", "U+118A4", "U+118A5", "U+118A6",
      "U+118A7", "U+118A8", "U+118A9", "U+118AA", "U+118AB", "U+118AC",
      "U+118AD", "U+118AE", "U+118AF", "U+118B0", "U+118B1", "U+118B2",
      "U+118B3", "U+118B4", "U+118B5", "U+118B6", "U+118B7", "U+118B8",
      "U+118B9", "U+118BA", "U+118BB", "U+118BC", "U+118BD", "U+118BE",
      "U+118BF", "U+16E40", "U+16E41", "U+16E42", "U+16E43", "U+16E44",
      "U+16E45", "U+16E46", "U+16E47", "U+16E48", "U+16E49", "U+16E4A",
      "U+16E4B", "U+16E4C", "U+16E4D", "U+16E4E", "U+16E4F", "U+16E50",
      "U+16E51", "U+16E52", "U+16E53", "U+16E54", "U+16E55", "U+16E56",
      "U+16E57", "U+16E58", "U+16E59", "U+16E5A", "U+16E5B", "U+16E5C",
      "U+16E5D", "U+16E5E", "U+16E5F", "U+1E900", "U+1E901", "U+1E902",
      "U+1E903", "U+1E904", "U+1E905", "U+1E906", "U+1E907", "U+1E908",
      "U+1E909", "U+1E90A", "U+1E90B", "U+1E90C", "U+1E90D", "U+1E90E",
      "U+1E90F", "U+1E910", "U+1E911", "U+1E912", "U+1E913", "U+1E914",
      "U+1E915", "U+1E916", "U+1E917", "U+1E918", "U+1E919", "U+1E91A",
      "U+1E91B", "U+1E91C", "U+1E91D", "U+1E91E", "U+1E91F", "U+1E920",
      "U+1E921">>

\* ... and, at the same position, what it replaces each of them by
Smalls ==
    <<"a", "b", "c", "d", "e", "f", "g", "h", "i", "j", "k", "l", "m", "n",
      "o", "p", "q", "r", "s", "t", "u", "v", "w", "x", "y", "z", "à", "á",
      "â", "ã", "ä", "å", "æ", "ç", "è", "é", "ê", "ë", "ì", "í", "î", "ï",
      "ð", "ñ", "ò", "ó", "ô", "õ", "ö", "ø", "ù", "ú", "û", "ü", "ý", "þ",
      "U+0101", "U+0103", "U+0105", "U+0107", "U+0109", "U+010B", "U+010D",
      "U+010F", "U+0111", "U+0113", "U+0115", "U+0117", "U+0119", "U+011B",
      "U+011D", "U+011F", "U+0121", "U+0123", "U+0125", "U+0127", "U+0129",
      "U+012B", "U+012D", "U+012F", "U+0133", "U+0135", "U+0137", "U+013A",
      "U+013C", "U+013E", "U+0140", "U+0142", "U+0144", "U+0146", "U+0148",
      "U+014B", "U+014D", "U+014F", "U+0151", "U+0153", "U+0155", "U+0157",
      "U+0159", "U+015B", "U+015D", "U+015F", "U+0161", "U+0163", "U+0165",
      "U+0167", "U+0169", "U+016B", "U+016D", "U+016F", "U+0171", "U+0173",
      "U+0175", "U+0177", "ÿ", "U+017A", "U+017C", "U+017E", "U+0253", "ƃ",
      "ƅ", "U+0254", "ƈ", "U+0256", "U+0257", "ƌ", "ǝ", "U+0259", "U+025B",
      "ƒ", "U+0260", "U+0263", "U+0269", "U+0268", "ƙ", "U+026F", "U+0272",
      "U+0275", "ơ", "ƣ", "ƥ", "ʀ", "ƨ", "ʃ", "ƭ", "ʈ", "ư", "ʊ", "ʋ", "ƴ",
      "ƶ", "ʒ", "ƹ", "ƽ", "ǆ", "ǆ", "ǉ", "ǉ", "ǌ", "ǌ", "ǎ", "ǐ", "ǒ", "ǔ",
      "ǖ", "ǘ", "ǚ", "ǜ", "ǟ", "ǡ", "ǣ", "ǥ", "ǧ", "ǩ", "ǫ", "ǭ", "ǯ", "ǳ",
      "ǳ", "ǵ", "ƕ", "ƿ", "ǹ", "ǻ", "ǽ", "ǿ", "U+0201", "U+0203", "U+0205",
      "U+0207", "U+0209", "U+020B", "U+020D", "U+020F", "U+0211", "U+0213",
      "U+0215", "U+0217", "U+0219", "U+021B", "U+021D", "U+021F", "ƞ",
      "U+0223", "U+0225", "U+0227", "U+0229", "U+022B", "U+022D", "U+022F",
      "U+0231", "U+0233", "U+2C65", "U+023C", "ƚ", "U+2C66", "U+0242", "ƀ",
      "ʉ", "ʌ", "U+0247", "U+0249", "U+024B", "U+024D", "U+024F", "U+0371",
      "U+0373", "U+0377", "ϳ", "ά", "έ", "ή", "ί", "ό", "ύ", "ώ", "α", "β",
      "γ", "δ", "ε", "ζ", "η", "θ", "ι", "κ", "λ", "μ", "ν", "ξ", "ο", "π",
      "ρ", "σ", "τ", "υ", "φ", "χ", "ψ", "ω", "ϊ", "ϋ", "ϗ", "ϙ", "ϛ", "ϝ",
      "ϟ", "ϡ", "ϣ", "ϥ", "ϧ", "ϩ", "ϫ", "ϭ", "ϯ", "θ", "ϸ", "ϲ", "ϻ",
      "U+037B", "U+037C", "U+037D", "U+0450", "U+0451", "U+0452", "U+0453",
      "U+0454", "U+0455", "U+0456", "U+0457", "U+0458", "U+0459", "U+045A",
      "U+045B", "U+045C", "U+045D", "U+045E", "U+045F", "U+0430", "U+0431",
      "U+0432", "U+0433", "U+0434", "U+0435", "U+0436", "U+0437", "U+0438",
      "U+0439", "U+043A", "U+043B", "U+043C", "U+043D", "U+043E", "U+043F",
      "U+0440", "U+0441", "U+0442", "U+0443", "U+0444", "U+0445", "U+0446",
      "U+0447", "U+0448", "U+0449", "U+044A", "U+044B", "U+044C", "U+044D",
      "U+044E", "U+044F", "U+0461", "U+0463", "U+0465", "U+0467", "U+0469",
      "U+046B", "U+046D", "U+046F", "U+0471", "U+0473", "U+0475", "U+0477",
      "U+0479", "U+047B", "U+047D", "U+047F", "ҁ", "ҋ", "ҍ", "ҏ", "ґ", "ғ",
      "ҕ", "җ", "ҙ", "қ", "ҝ", "ҟ", "ҡ", "ң", "ҥ", "ҧ", "ҩ", "ҫ", "ҭ", "ү",
      "ұ", "ҳ", "ҵ", "ҷ", "ҹ", "һ", "ҽ", "ҿ", "ӏ", "ӂ", "ӄ", "ӆ", "ӈ", "ӊ",
      "ӌ", "ӎ", "ӑ", "ӓ", "ӕ", "ӗ", "ә", "ӛ", "ӝ", "ӟ", "ӡ", "ӣ", "ӥ", "ӧ",
      "ө", "ӫ", "ӭ", "ӯ", "ӱ", "ӳ", "ӵ", "ӷ", "ӹ", "ӻ", "ӽ", "ӿ", "U+0501",
      "U+0503", "U+0505", "U+0507", "U+0509", "U+050B", "U+050D", "U+050F",
      "U+0511", "U+0513", "U+0515", "U+0517", "U+0519", "U+051B", "U+051D",
      "U+051F", "U+0521", "U+0523", "U+0525", "U+0527", "U+0529", "U+052B",
      "U+052D", "U+052F", "U+0561", "U+0562", "U+0563", "U+0564", "U+0565",
      "U+0566", "U+0567", "U+0568", "U+0569", "U+056A", "U+056B", "U+056C",
      "U+056D", "U+056E", "U+056F", "U+0570", "U+0571", "U+0572", "U+0573",
      "U+0574", "U+0575", "U+0576", "U+0577", "U+0578", "U+0579", "U+057A",
      "U+057B", "U+057C", "U+057D", "U+057E", "U+057F", "ր", "ց", "ւ", "փ",
      "ք", "օ", "ֆ", "U+2D00", "U+2D01", "U+2D02", "U+2D03", "U+2D04",
      "U+2D05", "U+2D06", "U+2D07", "U+2D08", "U+2D09", "U+2D0A", "U+2D0B",
      "U+2D0C", "U+2D0D", "U+2D0E", "U+2D0F", "U+2D10", "U+2D11", "U+2D12",
      "U+2D13", "U+2D14", "U+2D15", "U+2D16", "U+2D17", "U+2D18", "U+2D19",
      "U+2D1A", "U+2D1B", "U+2D1C", "U+2D1D", "U+2D1E", "U+2D1F", "U+2D20",
      "U+2D21", "U+2D22", "U+2D23", "U+2D24", "U+2D25", "U+2D27", "U+2D2D",
      "U+AB70", "U+AB71", "U+AB72", "U+AB73", "U+AB74", "U+AB75", "U+AB76",
      "U+AB77", "U+AB78", "U+AB79", "U+AB7A", "U+AB7B", "U+AB7C", "U+AB7D",
      "U+AB7E", "U+AB7F", "ꮀ", "ꮁ", "ꮂ", "ꮃ", "ꮄ", "ꮅ", "ꮆ", "ꮇ", "ꮈ", "ꮉ",
      "ꮊ", "ꮋ", "ꮌ", "ꮍ", "ꮎ", "ꮏ", "ꮐ", "ꮑ", "ꮒ", "ꮓ", "ꮔ", "ꮕ", "ꮖ", "ꮗ",
      "ꮘ", "ꮙ", "ꮚ", "ꮛ", "ꮜ", "ꮝ", "ꮞ", "ꮟ", "ꮠ", "ꮡ", "ꮢ", "ꮣ", "ꮤ", "ꮥ",
      "ꮦ", "ꮧ", "ꮨ", "ꮩ", "ꮪ", "ꮫ", "ꮬ", "ꮭ", "ꮮ", "ꮯ", "ꮰ", "ꮱ", "ꮲ", "ꮳ",
      "ꮴ", "ꮵ", "ꮶ", "ꮷ", "ꮸ", "ꮹ", "ꮺ", "ꮻ", "ꮼ", "ꮽ", "ꮾ", "ꮿ", "ᏸ", "ᏹ",
      "ᏺ", "ᏻ", "ᏼ", "ᏽ", "ა", "ბ", "გ", "დ", "ე", "ვ", "ზ", "თ", "ი", "კ",
      "ლ", "მ", "ნ", "ო", "პ", "ჟ", "რ", "ს", "ტ", "უ", "ფ", "ქ", "ღ", "ყ",
      "შ", "ჩ", "ც", "ძ", "წ", "ჭ", "ხ", "ჯ", "ჰ", "ჱ", "ჲ", "ჳ", "ჴ", "ჵ",
      "ჶ", "ჷ", "ჸ", "ჹ", "ჺ", "ჽ", "ჾ", "ჿ", "U+1E01", "U+1E03", "U+1E05",
      "U+1E07", "U+1E09", "U+1E0B", "U+1E0D", "U+1E0F", "U+1E11", "U+1E13",
      "U+1E15", "U+1E17", "U+1E19", "U+1E1B", "U+1E1D", "U+1E1F", "U+1E21",
      "U+1E23", "U+1E25", "U+1E27", "U+1E29", "U+1E2B", "U+1E2D", "U+1E2F",
      "U+1E31", "U+1E33", "U+1E35", "U+1E37", "U+1E39", "U+1E3B", "U+1E3D",
      "U+1E3F", "U+1E41", "U+1E43", "U+1E45", "U+1E47", "U+1E49", "U+1E4B",
      "U+1E4D", "U+1E4F", "U+1E51", "U+1E53", "U+1E55", "U+1E57", "U+1E59",
      "U+1E5B", "U+1E5D", "U+1E5F", "U+1E61", "U+1E63", "U+1E65", "U+1E67",
      "U+1E69", "U+1E6B", "U+1E6D", "U+1E6F", "U+1E71", "U+1E73", "U+1E75",
      "U+1E77", "U+1E79", "U+1E7B", "U+1E7D", "U+1E7F", "ẁ", "ẃ", "ẅ", "ẇ",
      "ẉ", "ẋ", "ẍ", "ẏ", "ẑ", "ẓ", "ẕ", "ß", "ạ", "ả", "ấ", "ầ", "ẩ", "ẫ",
      "ậ", "ắ", "ằ", "ẳ", "ẵ", "ặ", "ẹ", "ẻ", "ẽ", "ế", "ề", "ể", "ễ", "ệ",
      "ỉ", "ị", "ọ", "ỏ", "ố", "ồ", "ổ", "ỗ", "ộ", "ớ", "ờ", "ở", "ỡ", "ợ",
      "ụ", "ủ", "ứ", "ừ", "ử", "ữ", "ự", "ỳ", "ỵ", "ỷ", "ỹ", "ỻ", "ỽ", "ỿ",
      "U+1F00", "U+1F01", "U+1F02", "U+1F03", "U+1F04", "U+1F05", "U+1F06",
      "U+1F07", "U+1F10", "U+1F11", "U+1F12", "U+1F13", "U+1F14", "U+1F15",
      "U+1F20", "U+1F21", "U+1F22", "U+1F23", "U+1F24", "U+1F25", "U+1F26",
      "U+1F27", "U+1F30", "U+1F31", "U+1F32", "U+1F33", "U+1F34", "U+1F35",
      "U+1F36", "U+1F37", "U+1F40", "U+1F41", "U+1F42", "U+1F43", "U+1F44",
      "U+1F45", "U+1F51", "U+1F53", "U+1F55", "U+1F57", "U+1F60", "U+1F61",
      "U+1F62", "U+1F63", "U+1F64", "U+1F65", "U+1F66", "U+1F67", "ᾀ", "ᾁ",
      "ᾂ", "ᾃ", "ᾄ", "ᾅ", "ᾆ", "ᾇ", "ᾐ", "ᾑ", "ᾒ", "ᾓ", "ᾔ", "ᾕ", "ᾖ", "ᾗ",
      "ᾠ", "ᾡ", "ᾢ", "ᾣ", "ᾤ", "ᾥ", "ᾦ", "ᾧ", "ᾰ", "ᾱ", "U+1F70", "U+1F71",
      "ᾳ", "U+1F72", "U+1F73", "U+1F74", "U+1F75", "ῃ", "ῐ", "ῑ", "U+1F76",
      "U+1F77", "ῠ", "ῡ", "U+1F7A", "U+1F7B", "ῥ", "U+1F78", "U+1F79",
      "U+1F7C", "U+1F7D", "ῳ", "ω", "k", "å", "U+214E", "U+2170", "U+2171",
      "U+2172", "U+2173", "U+2174", "U+2175", "U+2176", "U+2177", "U+2178",
      "U+2179", "U+217A", "U+217B", "U+217C", "U+217D", "U+217E", "U+217F",
      "ↄ", "ⓐ", "ⓑ", "ⓒ", "ⓓ", "ⓔ", "ⓕ", "ⓖ", "ⓗ", "ⓘ", "ⓙ", "ⓚ", "ⓛ", "ⓜ",
      "ⓝ", "ⓞ", "ⓟ", "ⓠ", "ⓡ", "ⓢ", "ⓣ", "ⓤ", "ⓥ", "ⓦ", "ⓧ", "ⓨ", "ⓩ",
      "U+2C30", "U+2C31", "U+2C32", "U+2C33", "U+2C34", "U+2C35", "U+2C36",
      "U+2C37", "U+2C38", "U+2C39", "U+2C3A", "U+2C3B", "U+2C3C", "U+2C3D",
      "U+2C3E", "U+2C3F", "U+2C40", "U+2C41", "U+2C42", "U+2C43", "U+2C44",
      "U+2C45", "U+2C46", "U+2C47", "U+2C48", "U+2C49", "U+2C4A", "U+2C4B",
      "U+2C4C", "U+2C4D", "U+2C4E", "U+2C4F", "U+2C50", "U+2C51", "U+2C52",
      "U+2C53", "U+2C54", "U+2C55", "U+2C56", "U+2C57", "U+2C58", "U+2C59",
      "U+2C5A", "U+2C5B", "U+2C5C", "U+2C5D", "U+2C5E", "U+2C5F", "U+2C61",
      "U+026B", "U+1D7D", "U+027D", "U+2C68", "U+2C6A", "U+2C6C", "U+0251",
      "U+0271", "U+0250", "U+0252", "U+2C73", "U+2C76", "U+023F", "U+0240",
      "ⲁ", "ⲃ", "ⲅ", "ⲇ", "ⲉ", "ⲋ", "ⲍ", "ⲏ", "ⲑ", "ⲓ", "ⲕ", "ⲗ", "ⲙ", "ⲛ",
      "ⲝ", "ⲟ", "ⲡ", "ⲣ", "ⲥ", "ⲧ", "ⲩ", "ⲫ", "ⲭ", "ⲯ", "ⲱ", "ⲳ", "ⲵ", "ⲷ",
      "ⲹ", "ⲻ", "ⲽ", "ⲿ", "ⳁ", "ⳃ", "ⳅ", "ⳇ", "ⳉ", "ⳋ", "ⳍ", "ⳏ", "ⳑ", "ⳓ",
      "ⳕ", "ⳗ", "ⳙ", "ⳛ", "ⳝ", "ⳟ", "ⳡ", "ⳣ", "ⳬ", "ⳮ", "ⳳ", "U+A641",
      "U+A643", "U+A645", "U+A647", "U+A649", "U+A64B", "U+A64D", "U+A64F",
      "U+A651", "U+A653", "U+A655", "U+A657", "U+A659", "U+A65B", "U+A65D",
      "U+A65F", "U+A661", "U+A663", "U+A665", "U+A667", "U+A669", "U+A66B",
      "U+A66D", "ꚁ", "ꚃ", "ꚅ", "ꚇ", "ꚉ", "ꚋ", "ꚍ", "ꚏ", "ꚑ", "ꚓ", "ꚕ", "ꚗ",
      "ꚙ", "ꚛ", "U+A723", "U+A725", "U+A727", "U+A729", "U+A72B", "U+A72D",
      "U+A72F", "U+A733", "U+A735", "U+A737", "U+A739", "U+A73B", "U+A73D",
      "U+A73F", "U+A741", "U+A743", "U+A745", "U+A747", "U+A749", "U+A74B",
      "U+A74D", "U+A74F", "U+A751", "U+A753", "U+A755", "U+A757", "U+A759",
      "U+A75B", "U+A75D", "U+A75F", "U+A761", "U+A763", "U+A765", "U+A767",
      "U+A769", "U+A76B", "U+A76D", "U+A76F", "U+A77A", "U+A77C", "U+1D79",
      "U+A77F", "ꞁ", "ꞃ", "ꞅ", "ꞇ", "ꞌ", "U+0265", "ꞑ", "ꞓ", "ꞗ", "ꞙ", "ꞛ",
      "ꞝ", "ꞟ", "ꞡ", "ꞣ", "ꞥ", "ꞧ", "ꞩ", "U+0266", "U+025C", "U+0261",
      "U+026C", "U+026A", "ʞ", "ʇ", "ʝ", "U+AB53", "ꞵ", "ꞷ", "ꞹ", "ꞻ", "ꞽ",
      "ꞿ", "ꟁ", "ꟃ", "ꞔ", "ʂ", "ᶎ", "ꟈ", "ꟊ", "ꟑ", "ꟗ", "ꟙ", "ꟶ", "U+FF41",
      "U+FF42", "U+FF43", "U+FF44", "U+FF45", "U+FF46", "U+FF47", "U+FF48",
      "U+FF49", "U+FF4A", "U+FF4B", "U+FF4C", "U+FF4D", "U+FF4E", "U+FF4F",
      "U+FF50", "U+FF51", "U+FF52", "U+FF53", "U+FF54", "U+FF55", "U+FF56",
      "U+FF57", "U+FF58", "U+FF59", "U+FF5A", "U+10428", "U+10429",
      "U+1042A", "U+1042B", "U+1042C", "U+1042D", "U+1042E", "U+1042F",
      "U+10430", "U+10431", "U+10432", "U+10433", "U+10434", "U+10435",
      "U+10436", "U+10437", "U+10438", "U+10439", "U+1043A", "U+1043B",
      "U+1043C", "U+1043D", "U+1043E", "U+1043F", "U+10440", "U+10441",
      "U+10442", "U+10443", "U+10444", "U+10445", "U+10446", "U+10447",
      "U+10448", "U+10449", "U+1044A", "U+1044B", "U+1044C", "U+1044D",
      "U+1044E", "U+1044F", "U+104D8", "U+104D9", "U+104DA", "U+104DB",
      "U+104DC", "U+104DD", "U+104DE", "U+104DF", "U+104E0", "U+104E1",
      "U+104E2", "U+104E3", "U+104E4", "U+104E5", "U+104E6", "U+104E7",
      "U+104E8", "U+104E9", "U+104EA", "U+104EB", "U+104EC", "U+104ED",
      "U+104EE", "U+104EF", "U+104F0", "U+104F1", "U+104F2", "U+104F3",
      "U+104F4", "U+104F5", "U+104F6", "U+104F7", "U+104F8", "U+104F9",
      "U+104FA", "U+104FB", "U+10597", "U+10598", "U+10599", "U+1059A",
      "U+1059B", "U+1059C", "U+1059D", "U+1059E", "U+1059F", "U+105A0",
      "U+105A1", "U+105A3", "U+105A4", "U+105A5", "U+105A6", "U+105A7",
      "U+105A8", "U+105A9", "U+105AA", "U+105AB", "U+105AC", "U+105AD",
      "U+105AE", "U+105AF", "U+105B0", "U+105B1", "U+105B3", "U+105B4",
      "U+105B5", "U+105B6", "U+105B7", "U+105B8", "U+105B9", "U+105BB",
      "U+105BC", "U+10CC0", "U+10CC1", "U+10CC2", "U+10CC3", "U+10CC4",
      "U+10CC5", "U+10CC6", "U+10CC7", "U+10CC8", "U+10CC9", "U+10CCA",
      "U+10CCB", "U+10CCC", "U+10CCD", "U+10CCE", "U+10CCF", "U+10CD0",
      "U+10CD1", "U+10CD2", "U+10CD3", "U+10CD4", "U+10CD5", "U+10CD6",
      "U+10CD7", "U+10CD8", "U+10CD9", "U+10CDA", "U+10CDB", "U+10CDC",
      "U+10CDD", "U+10CDE", "U+10CDF", "U+10CE0", "U+10CE1", "U+10CE2",
      "U+10CE3", "U+10CE4", "U+10CE5", "U+10CE6", "U+10CE7", "U+10CE8",
      "U+10CE9", "U+10CEA", "U+10CEB", "U+10CEC", "U+10CED", "U+10CEE",
      "U+10CEF", "U+10CF0", "U+10CF1", "U+10CF2", "U+118C0", "U+118C1",
      "U+118C2", "U+118C3", "U+118C4", "U+118C5", "U+118C6", "U+118C7",
      "U+118C8", "U+118C9", "U+118CA", "U+118CB", "U+118CC", "U+118CD",
      "U+118CE", "U+118CF", "U+118D0", "U+118D1", "U+118D2", "U+118D3",
      "U+118D4", "U+118D5", "U+118D6", "U+118D7", "U+118D8", "U+118D9",
      "U+118DA", "U+118DB", "U+118DC", "U+118DD", "U+118DE", "U+118DF",
      "U+16E60", "U+16E61", "U+16E62", "U+16E63", "U+16E64", "U+16E65",
      "U+16E66", "U+16E67", "U+16E68", "U+16E69", "U+16E6A", "U+16E6B",
      "U+16E6C", "U+16E6D", "U+16E6E", "U+16E6F", "U+16E70", "U+16E71",
      "U+16E72", "U+16E73", "U+16E74", "U+16E75", "U+16E76", "U+16E77",
      "U+16E78", "U+16E79", "U+16E7A", "U+16E7B", "U+16E7C", "U+16E7D",
      "U+16E7E", "U+16E7F", "U+1E922", "U+1E923", "U+1E924", "U+1E925",
      "U+1E926", "U+1E927", "U+1E928", "U+1E929", "U+1E92A", "U+1E92B",
      "U+1E92C", "U+1E92D", "U+1E92E", "U+1E92F", "U+1E930", "U+1E931",
      "U+1E932", "U+1E933", "U+1E934", "U+1E935", "U+1E936", "U+1E937",
      "U+1E938", "U+1E939", "U+1E93A", "U+1E93B", "U+1E93C", "U+1E93D",
      "U+1E93E", "U+1E93F", "U+1E940", "U+1E941", "U+1E942", "U+1E943">>

\* the characters of the table
CapitalSet == {Capitals[i] : i \in DOMAIN Capitals}

\* str.lower() on a string of one character that lowers to one character;
\* every other character is left as it is
LowerChar(c) ==
    IF c \in CapitalSet
      THEN Smalls[CHOOSE i \in DOMAIN Capitals : Capitals[i] = c]
      ELSE c

\* The characters str.lower() skips on either side of a capital sigma
\* (Case_Ignorable).
CaseIgnorable ==
    {"'", ".", ":", "^", "U+0060", "¨", "­", "¯", "´", "·", "¸", "ʰ", "ʱ", "ʲ", "ʳ", "ʴ", "ʵ",
     "ʶ", "ʷ", "ʸ", "ʹ", "ʺ", "ʻ", "ʼ", "ʽ", "ʾ", "ʿ", "ˀ", "ˁ", "˂", "˃", "˄", "˅", "ˆ", "ˇ",
     "ˈ", "ˉ", "ˊ", "ˋ", "ˌ", "ˍ", "ˎ", "ˏ", "ː", "ˑ", "˒", "˓", "˔", "˕", "˖", "˗", "˘", "˙",
     "˚", "˛", "˜", "˝", "˞", "˟", "ˠ", "ˡ", "ˢ", "ˣ", "ˤ", "˥", "˦", "˧", "˨", "˩", "˪", "˫",
     "ˬ", "˭", "ˮ", "˯", "˰", "˱", "˲", "˳", "˴", "˵", "˶", "˷", "˸", "˹", "˺", "˻", "˼", "˽",
     "˾", "˿", "U+0300", "U+0301", "U+0302", "U+0303", "U+0304", "U+0305", "U+0306", "U+0307",
     "U+0308", "U+0309", "U+030A", "U+030B", "U+030C", "U+030D", "U+030E", "U+030F", "U+0310",
     "U+0311", "U+0312", "U+0313", "U+0314", "U+0315", "U+0316", "U+0317", "U+0318", "U+0319",
     "U+031A", "U+031B", "U+031C", "U+031D", "U+031E", "U+031F", "U+0320", "U+0321", "U+0322",
     "U+0323", "U+0324", "U+0325", "U+0326", "U+0327", "U+0328", "U+0329", "U+032A", "U+032B",
     "U+032C", "U+032D", "U+032E", "U+032F", "U+0330", "U+0331", "U+0332", "U+0333", "U+0334",
     "U+0335", "U+0336", "U+0337", "U+0338", "U+0339", "U+033A", "U+033B", "U+033C", "U+033D",
     "U+033E", "U+033F", "U+0340", "U+0341", "U+0342", "U+0343", "U+0344", "U+0345", "U+0346",
     "U+0347", "U+0348", "U+0349", "U+034A", "U+034B", "U+034C", "U+034D", "U+034E", "U+034F",
     "U+0350", "U+0351", "U+0352", "U+0353", "U+0354", "U+0355", "U+0356", "U+0357", "U+0358",
     "U+0359", "U+035A", "U+035B", "U+035C", "U+035D", "U+035E", "U+035F", "U+0360", "U+0361",
     "U+0362", "U+0363", "U+0364", "U+0365", "U+0366", "U+0367", "U+0368", "U+0369", "U+036A",
     "U+036B", "U+036C", "U+036D", "U+036E", "U+036F", "U+0374", "U+0375", "U+037A", "΄", "΅",
     "·", "҃", "҄", "҅", "҆", "҇", "҈", "҉", "U+0559", "U+055F", "֑", "֒", "֓", "֔", "֕", "֖",
     "֗", "֘", "֙", "֚", "֛", "֜", "֝", "֞", "֟", "֠", "֡", "֢", "֣", "֤", "֥", "֦", "֧", "֨",
     "֩", "֪", "֫", "֬", "֭", "֮", "֯", "ְ", "ֱ", "ֲ", "ֳ", "ִ", "ֵ", "ֶ", "ַ", "ָ", "ֹ", "ֺ",
     "ֻ", "ּ", "ֽ", "ֿ", "ׁ", "ׂ", "ׄ", "ׅ", "ׇ", "״", "U+0600", "U+0601", "U+0602", "U+0603",
     "U+0604", "U+0605", "U+0610", "U+0611", "U+0612", "U+0613", "U+0614", "U+0615", "U+0616",
     "U+0617", "U+0618", "U+0619", "U+061A", "U+061C", "U+0640", "U+064B", "U+064C", "U+064D",
     "U+064E", "U+064F", "U+0650", "U+0651", "U+0652", "U+0653", "U+0654", "U+0655", "U+0656",
     "U+0657", "U+0658", "U+0659", "U+065A", "U+065B", "U+065C", "U+065D", "U+065E", "U+065F",
     "U+0670", "ۖ", "ۗ", "ۘ", "ۙ", "ۚ", "ۛ", "ۜ", "۝", "۟", "۠", "ۡ", "ۢ", "ۣ", "ۤ", "ۥ", "ۦ",
     "ۧ", "ۨ", "۪", "۫", "۬", "ۭ", "U+070F", "U+0711", "U+0730", "U+0731", "U+0732", "U+0733",
     "U+0734", "U+0735", "U+0736", "U+0737", "U+0738", "U+0739", "U+073A", "U+073B", "U+073C",
     "U+073D", "U+073E", "U+073F", "U+0740", "U+0741", "U+0742", "U+0743", "U+0744", "U+0745",
     "U+0746", "U+0747", "U+0748", "U+0749", "U+074A", "ަ", "ާ", "ި", "ީ", "ު", "ޫ", "ެ", "ޭ",
     "ޮ", "ޯ", "ް", "߫", "߬", "߭", "߮", "߯", "߰", "߱", "߲", "߳", "ߴ", "ߵ", "ߺ", "߽", "U+0816",
     "U+0817", "U+0818", "U+0819", "U+081A", "U+081B", "U+081C", "U+081D", "U+081E", "U+081F",
     "U+0820", "U+0821", "U+0822", "U+0823", "U+0824", "U+0825", "U+0826", "U+0827", "U+0828",
     "U+0829", "U+082A", "U+082B", "U+082C", "U+082D", "U+0859", "U+085A", "U+085B", "࢈", "࢐",
     "࢑", "࢘", "࢙", "࢚", "࢛", "࢜", "࢝", "࢞", "࢟", "ࣉ", "࣊", "࣋", "࣌", "࣍", "࣎", "࣏", "࣐", "࣑",
     "࣒", "࣓", "ࣔ", "ࣕ", "ࣖ", "ࣗ", "ࣘ", "ࣙ", "ࣚ", "ࣛ", "ࣜ", "ࣝ", "ࣞ", "ࣟ", "࣠", "࣡", "࣢", "ࣣ",
     "ࣤ", "ࣥ", "ࣦ", "ࣧ", "ࣨ", "ࣩ", "࣪", "࣫", "࣬", "࣭", "࣮", "࣯", "ࣰ", "ࣱ", "ࣲ", "ࣳ", "ࣴ", "ࣵ",
     "ࣶ", "ࣷ", "ࣸ", "ࣹ", "ࣺ", "ࣻ", "ࣼ", "ࣽ", "ࣾ", "ࣿ", "U+0900", "U+0901", "U+0902", "U+093A",
     "U+093C", "U+0941", "U+0942", "U+0943", "U+0944", "U+0945", "U+0946", "U+0947", "U+0948",
     "U+094D", "U+0951", "U+0952", "U+0953", "U+0954", "U+0955", "U+0956", "U+0957", "U+0962",
     "U+0963", "U+0971", "ঁ", "়", "ু", "ূ", "ৃ", "ৄ", "্", "ৢ", "ৣ", "৾", "U+0A01", "U+0A02",
     "U+0A3C", "U+0A41", "U+0A42", "U+0A47", "U+0A48", "U+0A4B", "U+0A4C", "U+0A4D", "U+0A51",
     "U+0A70", "U+0A71", "U+0A75", "ઁ", "ં", "઼", "ુ", "ૂ", "ૃ", "ૄ", "ૅ", "ે", "ૈ", "્", "ૢ",
     "ૣ", "ૺ", "ૻ", "ૼ", "૽", "૾", "૿", "U+0B01", "U+0B3C", "U+0B3F", "U+0B41", "U+0B42",
     "U+0B43", "U+0B44", "U+0B4D", "U+0B55", "U+0B56", "U+0B62", "U+0B63", "ஂ", "ீ", "்",
     "U+0C00", "U+0C04", "U+0C3C", "U+0C3E", "U+0C3F", "U+0C40", "U+0C46", "U+0C47", "U+0C48",
     "U+0C4A", "U+0C4B", "U+0C4C", "U+0C4D", "U+0C55", "U+0C56", "U+0C62", "U+0C63", "ಁ", "಼",
     "ಿ", "ೆ", "ೌ", "್", "ೢ", "ೣ", "U+0D00", "U+0D01", "U+0D3B", "U+0D3C", "U+0D41", "U+0D42",
     "U+0D43", "U+0D44", "U+0D4D", "U+0D62", "U+0D63", "ඁ", "්", "ි", "ී", "ු", "ූ", "U+0E31",
     "U+0E34", "U+0E35", "U+0E36", "U+0E37", "U+0E38", "U+0E39", "U+0E3A", "U+0E46", "U+0E47",
     "U+0E48", "U+0E49", "U+0E4A", "U+0E4B", "U+0E4C", "U+0E4D", "U+0E4E", "ັ", "ິ", "ີ", "ຶ",
     "ື", "ຸ", "ູ", "຺", "ົ", "ຼ", "ໆ", "່", "້", "໊", "໋", "໌", "ໍ", "U+0F18", "U+0F19",
     "U+0F35", "U+0F37", "U+0F39", "U+0F71", "U+0F72", "U+0F73", "U+0F74", "U+0F75", "U+0F76",
     "U+0F77", "U+0F78", "U+0F79", "U+0F7A", "U+0F7B", "U+0F7C", "U+0F7D", "U+0F7E", "ྀ", "ཱྀ",
     "ྂ", "ྃ", "྄", "྆", "྇", "ྍ", "ྎ", "ྏ", "ྐ", "ྑ", "ྒ", "ྒྷ", "ྔ", "ྕ", "ྖ", "ྗ", "ྙ", "ྚ",
     "ྛ", "ྜ", "ྜྷ", "ྞ", "ྟ", "ྠ", "ྡ", "ྡྷ", "ྣ", "ྤ", "ྥ", "ྦ", "ྦྷ", "ྨ", "ྩ", "ྪ", "ྫ", "ྫྷ",
     "ྭ", "ྮ", "ྯ", "ྰ", "ྱ", "ྲ", "ླ", "ྴ", "ྵ", "ྶ", "ྷ", "ྸ", "ྐྵ", "ྺ", "ྻ", "ྼ", "࿆",
     "U+102D", "U+102E", "U+102F", "U+1030", "U+1032", "U+1033", "U+1034", "U+1035", "U+1036",
     "U+1037", "U+1039", "U+103A", "U+103D", "U+103E", "U+1058", "U+1059", "U+105E", "U+105F",
     "U+1060", "U+1071", "U+1072", "U+1073", "U+1074", "ႂ", "ႅ", "ႆ", "ႍ", "ႝ", "ჼ", "U+135D",
     "U+135E", "U+135F", "U+1712", "U+1713", "U+1714", "U+1732", "U+1733", "U+1752", "U+1753",
     "U+1772", "U+1773", "឴", "឵", "ិ", "ី", "ឹ", "ឺ", "ុ", "ូ", "ួ", "ំ", "៉", "៊", "់", "៌",
     "៍", "៎", "៏", "័", "៑", "្", "៓", "ៗ", "៝", "U+180B", "U+180C", "U+180D", "U+180E",
     "U+180F", "U+1843", "ᢅ", "ᢆ", "ᢩ", "U+1920", "U+1921", "U+1922", "U+1927", "U+1928",
     "U+1932", "U+1939", "U+193A", "U+193B", "U+1A17", "U+1A18", "U+1A1B", "U+1A56", "U+1A58",
     "U+1A59", "U+1A5A", "U+1A5B", "U+1A5C", "U+1A5D", "U+1A5E", "U+1A60", "U+1A62", "U+1A65",
     "U+1A66", "U+1A67", "U+1A68", "U+1A69", "U+1A6A", "U+1A6B", "U+1A6C", "U+1A73", "U+1A74",
     "U+1A75", "U+1A76", "U+1A77", "U+1A78", "U+1A79", "U+1A7A", "U+1A7B", "U+1A7C", "U+1A7F",
     "ᪧ", "᪰", "᪱", "᪲", "᪳", "᪴", "᪵", "᪶", "᪷", "᪸", "᪹", "᪺", "᪻", "᪼", "᪽", "᪾", "ᪿ", "ᫀ",
     "᫁", "᫂", "᫃", "᫄", "᫅", "᫆", "᫇", "᫈", "᫉", "᫊", "᫋", "ᫌ", "ᫍ", "ᫎ", "U+1B00", "U+1B01",
     "U+1B02", "U+1B03", "U+1B34", "U+1B36", "U+1B37", "U+1B38", "U+1B39", "U+1B3A", "U+1B3C",
     "U+1B42", "U+1B6B", "U+1B6C", "U+1B6D", "U+1B6E", "U+1B6F", "U+1B70", "U+1B71", "U+1B72",
     "U+1B73", "ᮀ", "ᮁ", "ᮢ", "ᮣ", "ᮤ", "ᮥ", "ᮨ", "ᮩ", "᮫", "ᮬ", "ᮭ", "᯦", "ᯨ", "ᯩ", "ᯭ", "ᯯ",
     "ᯰ", "ᯱ", "U+1C2C", "U+1C2D", "U+1C2E", "U+1C2F", "U+1C30", "U+1C31", "U+1C32", "U+1C33",
     "U+1C36", "U+1C37", "U+1C78", "U+1C79", "U+1C7A", "U+1C7B", "U+1C7C", "U+1C7D", "᳐", "᳑",
     "᳒", "᳔", "᳕", "᳖", "᳗", "᳘", "᳙", "᳚", "᳛", "᳜", "᳝", "᳞", "᳟", "᳠", "᳢", "᳣", "᳤", "᳥",
     "᳦", "᳧", "᳨", "᳭", "᳴", "᳸", "᳹", "U+1D2C", "U+1D2D", "U+1D2E", "U+1D2F", "U+1D30",
     "U+1D31", "U+1D32", "U+1D33", "U+1D34", "U+1D35", "U+1D36", "U+1D37", "U+1D38", "U+1D39",
     "U+1D3A", "U+1D3B", "U+1D3C", "U+1D3D", "U+1D3E", "U+1D3F", "U+1D40", "U+1D41", "U+1D42",
     "U+1D43", "U+1D44", "U+1D45", "U+1D46", "U+1D47", "U+1D48", "U+1D49", "U+1D4A", "U+1D4B",
     "U+1D4C", "U+1D4D", "U+1D4E", "U+1D4F", "U+1D50", "U+1D51", "U+1D52", "U+1D53", "U+1D54",
     "U+1D55", "U+1D56", "U+1D57", "U+1D58", "U+1D59", "U+1D5A", "U+1D5B", "U+1D5C", "U+1D5D",
     "U+1D5E", "U+1D5F", "U+1D60", "U+1D61", "U+1D62", "U+1D63", "U+1D64", "U+1D65", "U+1D66",
     "U+1D67", "U+1D68", "U+1D69", "U+1D6A", "U+1D78", "ᶛ", "ᶜ", "ᶝ", "ᶞ", "ᶟ", "ᶠ", "ᶡ", "ᶢ",
     "ᶣ", "ᶤ", "ᶥ", "ᶦ", "ᶧ", "ᶨ", "ᶩ", "ᶪ", "ᶫ", "ᶬ", "ᶭ", "ᶮ", "ᶯ", "ᶰ", "ᶱ", "ᶲ", "ᶳ", "ᶴ",
     "ᶵ", "ᶶ", "ᶷ", "ᶸ", "ᶹ", "ᶺ", "ᶻ", "ᶼ", "ᶽ", "ᶾ", "ᶿ", "᷀", "᷁", "᷂", "᷃", "᷄", "᷅", "᷆",
     "᷇", "᷈", "᷉", "᷊", "᷋", "᷌", "᷍", "᷎", "᷏", "᷐", "᷑", "᷒", "ᷓ", "ᷔ", "ᷕ", "ᷖ", "ᷗ", "ᷘ",
     "ᷙ", "ᷚ", "ᷛ", "ᷜ", "ᷝ", "ᷞ", "ᷟ", "ᷠ", "ᷡ", "ᷢ", "ᷣ", "ᷤ", "ᷥ", "ᷦ", "ᷧ", "ᷨ", "ᷩ", "ᷪ",
     "ᷫ", "ᷬ", "ᷭ", "ᷮ", "ᷯ", "ᷰ", "ᷱ", "ᷲ", "ᷳ", "ᷴ", "᷵", "᷶", "᷷", "᷸", "᷹", "᷺", "᷻", "᷼",
     "᷽", "᷾", "᷿", "᾽", "᾿", "῀", "῁", "῍", "῎", "῏", "῝", "῞", "῟", "῭", "΅", "`", "´", "῾",
     "U+200B", "U+200C", "U+200D", "U+200E", "U+200F", "U+2018", "U+2019", "U+2024", "U+2027",
     "U+202A", "U+202B", "U+202C", "U+202D", "U+202E", "U+2060", "U+2061", "U+2062", "U+2063",
     "U+2064", "U+2066", "U+2067", "U+2068", "U+2069", "U+206A", "U+206B", "U+206C", "U+206D",
     "U+206E", "U+206F", "U+2071", "U+207F", "ₐ", "ₑ", "ₒ", "ₓ", "ₔ", "ₕ", "ₖ", "ₗ", "ₘ", "ₙ",
     "ₚ", "ₛ", "ₜ", "⃐", "⃑", "⃒", "⃓", "⃔", "⃕", "⃖", "⃗", "⃘", "⃙", "⃚", "⃛", "⃜", "⃝", "⃞",
     "⃟", "⃠", "⃡", "⃢", "⃣", "⃤", "⃥", "⃦", "⃧", "⃨", "⃩", "⃪", "⃫", "⃬", "⃭", "⃮", "⃯", "⃰",
     "U+2C7C", "U+2C7D", "⳯", "⳰", "⳱", "U+2D6F", "U+2D7F", "ⷠ", "ⷡ", "ⷢ", "ⷣ", "ⷤ", "ⷥ", "ⷦ",
     "ⷧ", "ⷨ", "ⷩ", "ⷪ", "ⷫ", "ⷬ", "ⷭ", "ⷮ", "ⷯ", "ⷰ", "ⷱ", "ⷲ", "ⷳ", "ⷴ", "ⷵ", "ⷶ", "ⷷ", "ⷸ",
     "ⷹ", "ⷺ", "ⷻ", "ⷼ", "ⷽ", "ⷾ", "ⷿ", "U+2E2F", "U+3005", "U+302A", "U+302B", "U+302C",
     "U+302D", "U+3031", "U+3032", "U+3033", "U+3034", "U+3035", "U+303B", "゙", "゚", "゛", "゜",
     "ゝ", "ゞ", "ー", "ヽ", "ヾ", "U+A015", "ꓸ", "ꓹ", "ꓺ", "ꓻ", "ꓼ", "ꓽ", "U+A60C", "U+A66F",
     "U+A670", "U+A671", "U+A672", "U+A674", "U+A675", "U+A676", "U+A677", "U+A678", "U+A679",
     "U+A67A", "U+A67B", "U+A67C", "U+A67D", "U+A67F", "ꚜ", "ꚝ", "ꚞ", "ꚟ", "꛰", "꛱", "U+A700",
     "U+A701", "U+A702", "U+A703", "U+A704", "U+A705", "U+A706", "U+A707", "U+A708", "U+A709",
     "U+A70A", "U+A70B", "U+A70C", "U+A70D", "U+A70E", "U+A70F", "U+A710", "U+A711", "U+A712",
     "U+A713", "U+A714", "U+A715", "U+A716", "U+A717", "U+A718", "U+A719", "U+A71A", "U+A71B",
     "U+A71C", "U+A71D", "U+A71E", "U+A71F", "U+A720", "U+A721", "U+A770", "ꞈ", "꞉", "꞊", "ꟲ",
     "ꟳ", "ꟴ", "ꟸ", "ꟹ", "U+A802", "U+A806", "U+A80B", "U+A825", "U+A826", "U+A82C", "꣄", "ꣅ",
     "꣠", "꣡", "꣢", "꣣", "꣤", "꣥", "꣦", "꣧", "꣨", "꣩", "꣪", "꣫", "꣬", "꣭", "꣮", "꣯", "꣰", "꣱",
     "ꣿ", "U+A926", "U+A927", "U+A928", "U+A929", "U+A92A", "U+A92B", "U+A92C", "U+A92D",
     "U+A947", "U+A948", "U+A949", "U+A94A", "U+A94B", "U+A94C", "U+A94D", "U+A94E", "U+A94F",
     "U+A950", "U+A951", "ꦀ", "ꦁ", "ꦂ", "꦳", "ꦶ", "ꦷ", "ꦸ", "ꦹ", "ꦼ", "ꦽ", "ꧏ", "ꧥ", "ꧦ",
     "U+AA29", "U+AA2A", "U+AA2B", "U+AA2C", "U+AA2D", "U+AA2E", "U+AA31", "U+AA32", "U+AA35",
     "U+AA36", "U+AA43", "U+AA4C", "U+AA70", "U+AA7C", "ꪰ", "ꪲ", "ꪳ", "ꪴ", "ꪷ", "ꪸ", "ꪾ", "꪿",
     "꫁", "ꫝ", "ꫬ", "ꫭ", "ꫳ", "ꫴ", "꫶", "U+AB5B", "U+AB5C", "U+AB5D", "U+AB5E", "U+AB5F",
     "U+AB69", "U+AB6A", "U+AB6B", "ꯥ", "ꯨ", "꯭", "U+FB1E", "﮲", "﮳", "﮴", "﮵", "﮶", "﮷", "﮸",
     "﮹", "﮺", "﮻", "﮼", "﮽", "﮾", "﮿", "﯀", "﯁", "﯂", "U+FE00", "U+FE01", "U+FE02", "U+FE03",
     "U+FE04", "U+FE05", "U+FE06", "U+FE07", "U+FE08", "U+FE09", "U+FE0A", "U+FE0B", "U+FE0C",
     "U+FE0D", "U+FE0E", "U+FE0F", "U+FE13", "U+FE20", "U+FE21", "U+FE22", "U+FE23", "U+FE24",
     "U+FE25", "U+FE26", "U+FE27", "U+FE28", "U+FE29", "U+FE2A", "U+FE2B", "U+FE2C", "U+FE2D",
     "U+FE2E", "U+FE2F", "U+FE52", "U+FE55", "﻿", "U+FF07", "U+FF0E", "U+FF1A", "U+FF3E",
     "U+FF40", "U+FF70", "ﾞ", "ﾟ", "￣", "￹", "￺", "￻", "U+101FD", "U+102E0", "U+10376",
     "U+10377", "U+10378", "U+10379", "U+1037A", "U+10780", "U+10781", "U+10782", "U+10783",
     "U+10784", "U+10785", "U+10787", "U+10788", "U+10789", "U+1078A", "U+1078B", "U+1078C",
     "U+1078D", "U+1078E", "U+1078F", "U+10790", "U+10791", "U+10792", "U+10793", "U+10794",
     "U+10795", "U+10796", "U+10797", "U+10798", "U+10799", "U+1079A", "U+1079B", "U+1079C",
     "U+1079D", "U+1079E", "U+1079F", "U+107A0", "U+107A1", "U+107A2", "U+107A3", "U+107A4",
     "U+107A5", "U+107A6", "U+107A7", "U+107A8", "U+107A9", "U+107AA", "U+107AB", "U+107AC",
     "U+107AD", "U+107AE", "U+107AF", "U+107B0", "U+107B2", "U+107B3", "U+107B4", "U+107B5",
     "U+107B6", "U+107B7", "U+107B8", "U+107B9", "U+107BA", "U+10A01", "U+10A02", "U+10A03",
     "U+10A05", "U+10A06", "U+10A0C", "U+10A0D", "U+10A0E", "U+10A0F", "U+10A38", "U+10A39",
     "U+10A3A", "U+10A3F", "U+10AE5", "U+10AE6", "U+10D24", "U+10D25", "U+10D26", "U+10D27",
     "U+10EAB", "U+10EAC", "U+10F46", "U+10F47", "U+10F48", "U+10F49", "U+10F4A", "U+10F4B",
     "U+10F4C", "U+10F4D", "U+10F4E", "U+10F4F", "U+10F50", "U+10F82", "U+10F83", "U+10F84",
     "U+10F85", "U+11001", "U+11038", "U+11039", "U+1103A", "U+1103B", "U+1103C", "U+1103D",
     "U+1103E", "U+1103F", "U+11040", "U+11041", "U+11042", "U+11043", "U+11044", "U+11045",
     "U+11046", "U+11070", "U+11073", "U+11074", "U+1107F", "U+11080", "U+11081", "U+110B3",
     "U+110B4", "U+110B5", "U+110B6", "U+110B9", "U+110BA", "U+110BD", "U+110C2", "U+110CD",
     "U+11100", "U+11101", "U+11102", "U+11127", "U+11128", "U+11129", "U+1112A", "U+1112B",
     "U+1112D", "U+1112E", "U+1112F", "U+11130", "U+11131", "U+11132", "U+11133", "U+11134",
     "U+11173", "U+11180", "U+11181", "U+111B6", "U+111B7", "U+111B8", "U+111B9", "U+111BA",
     "U+111BB", "U+111BC", "U+111BD", "U+111BE", "U+111C9", "U+111CA", "U+111CB", "U+111CC",
     "U+111CF", "U+1122F", "U+11230", "U+11231", "U+11234", "U+11236", "U+11237", "U+1123E",
     "U+112DF", "U+112E3", "U+112E4", "U+112E5", "U+112E6", "U+112E7", "U+112E8", "U+112E9",
     "U+112EA", "U+11300", "U+11301", "U+1133B", "U+1133C", "U+11340", "U+11366", "U+11367",
     "U+11368", "U+11369", "U+1136A", "U+1136B", "U+1136C", "U+11370", "U+11371", "U+11372",
     "U+11373", "U+11374", "U+11438", "U+11439", "U+1143A", "U+1143B", "U+1143C", "U+1143D",
     "U+1143E", "U+1143F", "U+11442", "U+11443", "U+11444", "U+11446", "U+1145E", "U+114B3",
     "U+114B4", "U+114B5", "U+114B6", "U+114B7", "U+114B8", "U+114BA", "U+114BF", "U+114C0",
     "U+114C2", "U+114C3", "U+115B2", "U+115B3", "U+115B4", "U+115B5", "U+115BC", "U+115BD",
     "U+115BF", "U+115C0", "U+115DC", "U+115DD", "U+11633", "U+11634", "U+11635", "U+11636",
     "U+11637", "U+11638", "U+11639", "U+1163A", "U+1163D", "U+1163F", "U+11640", "U+116AB",
     "U+116AD", "U+116B0", "U+116B1", "U+116B2", "U+116B3", "U+116B4", "U+116B5", "U+116B7",
     "U+1171D", "U+1171E", "U+1171F", "U+11722", "U+11723", "U+11724", "U+11725", "U+11727",
     "U+11728", "U+11729", "U+1172A", "U+1172B", "U+1182F", "U+11830", "U+11831", "U+11832",
     "U+11833", "U+11834", "U+11835", "U+11836", "U+11837", "U+11839", "U+1183A", "U+1193B",
     "U+1193C", "U+1193E", "U+11943", "U+119D4", "U+119D5", "U+119D6", "U+119D7", "U+119DA",
     "U+119DB", "U+119E0", "U+11A01", "U+11A02", "U+11A03", "U+11A04", "U+11A05", "U+11A06",
     "U+11A07", "U+11A08", "U+11A09", "U+11A0A", "U+11A33", "U+11A34", "U+11A35", "U+11A36",
     "U+11A37", "U+11A38", "U+11A3B", "U+11A3C", "U+11A3D", "U+11A3E", "U+11A47", "U+11A51",
     "U+11A52", "U+11A53", "U+11A54", "U+11A55", "U+11A56", "U+11A59", "U+11A5A", "U+11A5B",
     "U+11A8A", "U+11A8B", "U+11A8C", "U+11A8D", "U+11A8E", "U+11A8F", "U+11A90", "U+11A91",
     "U+11A92", "U+11A93", "U+11A94", "U+11A95", "U+11A96", "U+11A98", "U+11A99", "U+11C30",
     "U+11C31", "U+11C32", "U+11C33", "U+11C34", "U+11C35", "U+11C36", "U+11C38", "U+11C39",
     "U+11C3A", "U+11C3B", "U+11C3C", "U+11C3D", "U+11C3F", "U+11C92", "U+11C93", "U+11C94",
     "U+11C95", "U+11C96", "U+11C97", "U+11C98", "U+11C99", "U+11C9A", "U+11C9B", "U+11C9C",
     "U+11C9D", "U+11C9E", "U+11C9F", "U+11CA0", "U+11CA1", "U+11CA2", "U+11CA3", "U+11CA4",
     "U+11CA5", "U+11CA6", "U+11CA7", "U+11CAA", "U+11CAB", "U+11CAC", "U+11CAD", "U+11CAE",
     "U+11CAF", "U+11CB0", "U+11CB2", "U+11CB3", "U+11CB5", "U+11CB6", "U+11D31", "U+11D32",
     "U+11D33", "U+11D34", "U+11D35", "U+11D36", "U+11D3A", "U+11D3C", "U+11D3D", "U+11D3F",
     "U+11D40", "U+11D41", "U+11D42", "U+11D43", "U+11D44", "U+11D45", "U+11D47", "U+11D90",
     "U+11D91", "U+11D95", "U+11D97", "U+11EF3", "U+11EF4", "U+13430", "U+13431", "U+13432",
     "U+13433", "U+13434", "U+13435", "U+13436", "U+13437", "U+13438", "U+16AF0", "U+16AF1",
     "U+16AF2", "U+16AF3", "U+16AF4", "U+16B30", "U+16B31", "U+16B32", "U+16B33", "U+16B34",
     "U+16B35", "U+16B36", "U+16B40", "U+16B41", "U+16B42", "U+16B43", "U+16F4F", "U+16F8F",
     "U+16F90", "U+16F91", "U+16F92", "U+16F93", "U+16F94", "U+16F95", "U+16F96", "U+16F97",
     "U+16F98", "U+16F99", "U+16F9A", "U+16F9B", "U+16F9C", "U+16F9D", "U+16F9E", "U+16F9F",
     "U+16FE0", "U+16FE1", "U+16FE3", "U+16FE4", "U+1AFF0", "U+1AFF1", "U+1AFF2", "U+1AFF3",
     "U+1AFF5", "U+1AFF6", "U+1AFF7", "U+1AFF8", "U+1AFF9", "U+1AFFA", "U+1AFFB", "U+1AFFD",
     "U+1AFFE", "U+1BC9D", "U+1BC9E", "U+1BCA0", "U+1BCA1", "U+1BCA2", "U+1BCA3", "U+1CF00",
     "U+1CF01", "U+1CF02", "U+1CF03", "U+1CF04", "U+1CF05", "U+1CF06", "U+1CF07", "U+1CF08",
     "U+1CF09", "U+1CF0A", "U+1CF0B", "U+1CF0C", "U+1CF0D", "U+1CF0E", "U+1CF0F", "U+1CF10",
     "U+1CF11", "U+1CF12", "U+1CF13", "U+1CF14", "U+1CF15", "U+1CF16", "U+1CF17", "U+1CF18",
     "U+1CF19", "U+1CF1A", "U+1CF1B", "U+1CF1C", "U+1CF1D", "U+1CF1E", "U+1CF1F", "U+1CF20",
     "U+1CF21", "U+1CF22", "U+1CF23", "U+1CF24", "U+1CF25", "U+1CF26", "U+1CF27", "U+1CF28",
     "U+1CF29", "U+1CF2A", "U+1CF2B", "U+1CF2C", "U+1CF2D", "U+1CF30", "U+1CF31", "U+1CF32",
     "U+1CF33", "U+1CF34", "U+1CF35", "U+1CF36", "U+1CF37", "U+1CF38", "U+1CF39", "U+1CF3A",
     "U+1CF3B", "U+1CF3C", "U+1CF3D", "U+1CF3E", "U+1CF3F", "U+1CF40", "U+1CF41", "U+1CF42",
     "U+1CF43", "U+1CF44", "U+1CF45", "U+1CF46", "U+1D167", "U+1D168", "U+1D169", "U+1D173",
     "U+1D174", "U+1D175", "U+1D176", "U+1D177", "U+1D178", "U+1D179", "U+1D17A", "U+1D17B",
     "U+1D17C", "U+1D17D", "U+1D17E", "U+1D17F", "U+1D180", "U+1D181", "U+1D182", "U+1D185",
     "U+1D186", "U+1D187", "U+1D188", "U+1D189", "U+1D18A", "U+1D18B", "U+1D1AA", "U+1D1AB",
     "U+1D1AC", "U+1D1AD", "U+1D242", "U+1D243", "U+1D244", "U+1DA00", "U+1DA01", "U+1DA02",
     "U+1DA03", "U+1DA04", "U+1DA05", "U+1DA06", "U+1DA07", "U+1DA08", "U+1DA09", "U+1DA0A",
     "U+1DA0B", "U+1DA0C", "U+1DA0D", "U+1DA0E", "U+1DA0F", "U+1DA10", "U+1DA11", "U+1DA12",
     "U+1DA13", "U+1DA14", "U+1DA15", "U+1DA16", "U+1DA17", "U+1DA18", "U+1DA19", "U+1DA1A",
     "U+1DA1B", "U+1DA1C", "U+1DA1D", "U+1DA1E", "U+1DA1F", "U+1DA20", "U+1DA21", "U+1DA22",
     "U+1DA23", "U+1DA24", "U+1DA25", "U+1DA26", "U+1DA27", "U+1DA28", "U+1DA29", "U+1DA2A",
     "U+1DA2B", "U+1DA2C", "U+1DA2D", "U+1DA2E", "U+1DA2F", "U+1DA30", "U+1DA31", "U+1DA32",
     "U+1DA33", "U+1DA34", "U+1DA35", "U+1DA36", "U+1DA3B", "U+1DA3C", "U+1DA3D", "U+1DA3E",
     "U+1DA3F", "U+1DA40", "U+1DA41", "U+1DA42", "U+1DA43", "U+1DA44", "U+1DA45", "U+1DA46",
     "U+1DA47", "U+1DA48", "U+1DA49", "U+1DA4A", "U+1DA4B", "U+1DA4C", "U+1DA4D", "U+1DA4E",
     "U+1DA4F", "U+1DA50", "U+1DA51", "U+1DA52", "U+1DA53", "U+1DA54", "U+1DA55", "U+1DA56",
     "U+1DA57", "U+1DA58", "U+1DA59", "U+1DA5A", "U+1DA5B", "U+1DA5C", "U+1DA5D", "U+1DA5E",
     "U+1DA5F", "U+1DA60", "U+1DA61", "U+1DA62", "U+1DA63", "U+1DA64", "U+1DA65", "U+1DA66",
     "U+1DA67", "U+1DA68", "U+1DA69", "U+1DA6A", "U+1DA6B", "U+1DA6C", "U+1DA75", "U+1DA84",
     "U+1DA9B", "U+1DA9C", "U+1DA9D", "U+1DA9E", "U+1DA9F", "U+1DAA1", "U+1DAA2", "U+1DAA3",
     "U+1DAA4", "U+1DAA5", "U+1DAA6", "U+1DAA7", "U+1DAA8", "U+1DAA9", "U+1DAAA", "U+1DAAB",
     "U+1DAAC", "U+1DAAD", "U+1DAAE", "U+1DAAF", "U+1E000", "U+1E001", "U+1E002", "U+1E003",
     "U+1E004", "U+1E005", "U+1E006", "U+1E008", "U+1E009", "U+1E00A", "U+1E00B", "U+1E00C",
     "U+1E00D", "U+1E00E", "U+1E00F", "U+1E010", "U+1E011", "U+1E012", "U+1E013", "U+1E014",
     "U+1E015", "U+1E016", "U+1E017", "U+1E018", "U+1E01B", "U+1E01C", "U+1E01D", "U+1E01E",
     "U+1E01F", "U+1E020", "U+1E021", "U+1E023", "U+1E024", "U+1E026", "U+1E027", "U+1E028",
     "U+1E029", "U+1E02A", "U+1E130", "U+1E131", "U+1E132", "U+1E133", "U+1E134", "U+1E135",
     "U+1E136", "U+1E137", "U+1E138", "U+1E139", "U+1E13A", "U+1E13B", "U+1E13C", "U+1E13D",
     "U+1E2AE", "U+1E2EC", "U+1E2ED", "U+1E2EE", "U+1E2EF", "U+1E8D0", "U+1E8D1", "U+1E8D2",
     "U+1E8D3", "U+1E8D4", "U+1E8D5", "U+1E8D6", "U+1E944", "U+1E945", "U+1E946", "U+1E947",
     "U+1E948", "U+1E949", "U+1E94A", "U+1E94B", "U+1F3FB", "U+1F3FC", "U+1F3FD", "U+1F3FE",
     "U+1F3FF", "U+E0001", "U+E0020", "U+E0021", "U+E0022", "U+E0023", "U+E0024", "U+E0025",
     "U+E0026", "U+E0027", "U+E0028", "U+E0029", "U+E002A", "U+E002B", "U+E002C", "U+E002D",
     "U+E002E", "U+E002F", "U+E0030", "U+E0031", "U+E0032", "U+E0033", "U+E0034", "U+E0035",
     "U+E0036", "U+E0037", "U+E0038", "U+E0039", "U+E003A", "U+E003B", "U+E003C", "U+E003D",
     "U+E003E", "U+E003F", "U+E0040", "U+E0041", "U+E0042", "U+E0043", "U+E0044", "U+E0045",
     "U+E0046", "U+E0047", "U+E0048", "U+E0049", "U+E004A", "U+E004B", "U+E004C", "U+E004D",
     "U+E004E", "U+E004F", "U+E0050", "U+E0051", "U+E0052", "U+E0053", "U+E0054", "U+E0055",
     "U+E0056", "U+E0057", "U+E0058", "U+E0059", "U+E005A", "U+E005B", "U+E005C", "U+E005D",
     "U+E005E", "U+E005F", "U+E0060", "U+E0061", "U+E0062", "U+E0063", "U+E0064", "U+E0065",
     "U+E0066", "U+E0067", "U+E0068", "U+E0069", "U+E006A", "U+E006B", "U+E006C", "U+E006D",
     "U+E006E", "U+E006F", "U+E0070", "U+E0071", "U+E0072", "U+E0073", "U+E0074", "U+E0075",
     "U+E0076", "U+E0077", "U+E0078", "U+E0079", "U+E007A", "U+E007B", "U+E007C", "U+E007D",
     "U+E007E", "U+E007F", "U+E0100", "U+E0101", "U+E0102", "U+E0103", "U+E0104", "U+E0105",
     "U+E0106", "U+E0107", "U+E0108", "U+E0109", "U+E010A", "U+E010B", "U+E010C", "U+E010D",
     "U+E010E", "U+E010F", "U+E0110", "U+E0111", "U+E0112", "U+E0113", "U+E0114", "U+E0115",
     "U+E0116", "U+E0117", "U+E0118", "U+E0119", "U+E011A", "U+E011B", "U+E011C", "U+E011D",
     "U+E011E", "U+E011F", "U+E0120", "U+E0121", "U+E0122", "U+E0123", "U+E0124", "U+E0125",
     "U+E0126", "U+E0127", "U+E0128", "U+E0129", "U+E012A", "U+E012B", "U+E012C", "U+E012D",
     "U+E012E", "U+E012F", "U+E0130", "U+E0131", "U+E0132", "U+E0133", "U+E0134", "U+E0135",
     "U+E0136", "U+E0137", "U+E0138", "U+E0139", "U+E013A", "U+E013B", "U+E013C", "U+E013D",
     "U+E013E", "U+E013F", "U+E0140", "U+E0141", "U+E0142", "U+E0143", "U+E0144", "U+E0145",
     "U+E0146", "U+E0147", "U+E0148", "U+E0149", "U+E014A", "U+E014B", "U+E014C", "U+E014D",
     "U+E014E", "U+E014F", "U+E0150", "U+E0151", "U+E0152", "U+E0153", "U+E0154", "U+E0155",
     "U+E0156", "U+E0157", "U+E0158", "U+E0159", "U+E015A", "U+E015B", "U+E015C", "U+E015D",
     "U+E015E", "U+E015F", "U+E0160", "U+E0161", "U+E0162", "U+E0163", "U+E0164", "U+E0165",
     "U+E0166", "U+E0167", "U+E0168", "U+E0169", "U+E016A", "U+E016B", "U+E016C", "U+E016D",
     "U+E016E", "U+E016F", "U+E0170", "U+E0171", "U+E0172", "U+E0173", "U+E0174", "U+E0175",
     "U+E0176", "U+E0177", "U+E0178", "U+E0179", "U+E017A", "U+E017B", "U+E017C", "U+E017D",
     "U+E017E", "U+E017F", "U+E0180", "U+E0181", "U+E0182", "U+E0183", "U+E0184", "U+E0185",
     "U+E0186", "U+E0187", "U+E0188", "U+E0189", "U+E018A", "U+E018B", "U+E018C", "U+E018D",
     "U+E018E", "U+E018F", "U+E0190", "U+E0191", "U+E0192", "U+E0193", "U+E0194", "U+E0195",
     "U+E0196", "U+E0197", "U+E0198", "U+E0199", "U+E019A", "U+E019B", "U+E019C", "U+E019D",
     "U+E019E", "U+E019F", "U+E01A0", "U+E01A1", "U+E01A2", "U+E01A3", "U+E01A4", "U+E01A5",
     "U+E01A6", "U+E01A7", "U+E01A8", "U+E01A9", "U+E01AA", "U+E01AB", "U+E01AC", "U+E01AD",
     "U+E01AE", "U+E01AF", "U+E01B0", "U+E01B1", "U+E01B2", "U+E01B3", "U+E01B4", "U+E01B5",
     "U+E01B6", "U+E01B7", "U+E01B8", "U+E01B9", "U+E01BA", "U+E01BB", "U+E01BC", "U+E01BD",
     "U+E01BE", "U+E01BF", "U+E01C0", "U+E01C1", "U+E01C2", "U+E01C3", "U+E01C4", "U+E01C5",
     "U+E01C6", "U+E01C7", "U+E01C8", "U+E01C9", "U+E01CA", "U+E01CB", "U+E01CC", "U+E01CD",
     "U+E01CE", "U+E01CF", "U+E01D0", "U+E01D1", "U+E01D2", "U+E01D3", "U+E01D4", "U+E01D5",
     "U+E01D6", "U+E01D7", "U+E01D8", "U+E01D9", "U+E01DA", "U+E01DB", "U+E01DC", "U+E01DD",
     "U+E01DE", "U+E01DF", "U+E01E0", "U+E01E1", "U+E01E2", "U+E01E3", "U+E01E4", "U+E01E5",
     "U+E01E6", "U+E01E7", "U+E01E8", "U+E01E9", "U+E01EA", "U+E01EB", "U+E01EC", "U+E01ED",
     "U+E01EE", "U+E01EF"}

\* The cased characters that are not skipped: letters with a case.
Cased ==
    {"A", "B", "C", "D", "E", "F", "G", "H", "I", "J", "K", "L", "M", "N", "O", "P", "Q", "R",
     "S", "T", "U", "V", "W", "X", "Y", "Z", "a", "b", "c", "d", "e", "f", "g", "h", "i", "j",
     "k", "l", "m", "n", "o", "p", "q", "r", "s", "t", "u", "v", "w", "x", "y", "z", "ª", "µ",
     "º", "À", "Á", "Â", "Ã", "Ä", "Å", "Æ", "Ç", "È", "É", "Ê", "Ë", "Ì", "Í", "Î", "Ï", "Ð",
     "Ñ", "Ò", "Ó", "Ô", "Õ", "Ö", "Ø", "Ù", "Ú", "Û", "Ü", "Ý", "Þ", "ß", "à", "á", "â", "ã",
     "ä", "å", "æ", "ç", "è", "é", "ê", "ë", "ì", "í", "î", "ï", "ð", "ñ", "ò", "ó", "ô", "õ",
     "ö", "ø", "ù", "ú", "û", "ü", "ý", "þ", "ÿ", "U+0100", "U+0101", "U+0102", "U+0103",
     "U+0104", "U+0105", "U+0106", "U+0107", "U+0108", "U+0109", "U+010A", "U+010B", "U+010C",
     "U+010D", "U+010E", "U+010F", "U+0110", "U+0111", "U+0112", "U+0113", "U+0114", "U+0115",
     "U+0116", "U+0117", "U+0118", "U+0119", "U+011A", "U+011B", "U+011C", "U+011D", "U+011E",
     "U+011F", "U+0120", "U+0121", "U+0122", "U+0123", "U+0124", "U+0125", "U+0126", "U+0127",
     "U+0128", "U+0129", "U+012A", "U+012B", "U+012C", "U+012D", "U+012E", "U+012F", "U+0130",
     "U+0131", "U+0132", "U+0133", "U+0134", "U+0135", "U+0136", "U+0137", "U+0138", "U+0139",
     "U+013A", "U+013B", "U+013C", "U+013D", "U+013E", "U+013F", "U+0140", "U+0141", "U+0142",
     "U+0143", "U+0144", "U+0145", "U+0146", "U+0147", "U+0148", "U+0149", "U+014A", "U+014B",
     "U+014C", "U+014D", "U+014E", "U+014F", "U+0150", "U+0151", "U+0152", "U+0153", "U+0154",
     "U+0155", "U+0156", "U+0157", "U+0158", "U+0159", "U+015A", "U+015B", "U+015C", "U+015D",
     "U+015E", "U+015F", "U+0160", "U+0161", "U+0162", "U+0163", "U+0164", "U+0165", "U+0166",
     "U+0167", "U+0168", "U+0169", "U+016A", "U+016B", "U+016C", "U+016D", "U+016E", "U+016F",
     "U+0170", "U+0171", "U+0172", "U+0173", "U+0174", "U+0175", "U+0176", "U+0177", "U+0178",
     "U+0179", "U+017A", "U+017B", "U+017C", "U+017D", "U+017E", "U+017F", "ƀ", "Ɓ", "Ƃ", "ƃ",
     "Ƅ", "ƅ", "Ɔ", "Ƈ", "ƈ", "Ɖ", "Ɗ", "Ƌ", "ƌ", "ƍ", "Ǝ", "Ə", "Ɛ", "Ƒ", "ƒ", "Ɠ", "Ɣ", "ƕ",
     "Ɩ", "Ɨ", "Ƙ", "ƙ", "ƚ", "ƛ", "Ɯ", "Ɲ", "ƞ", "Ɵ", "Ơ", "ơ", "Ƣ", "ƣ", "Ƥ", "ƥ", "Ʀ", "Ƨ",
     "ƨ", "Ʃ", "ƪ", "ƫ", "Ƭ", "ƭ", "Ʈ", "Ư", "ư", "Ʊ", "Ʋ", "Ƴ", "ƴ", "Ƶ", "ƶ", "Ʒ", "Ƹ", "ƹ",
     "ƺ", "Ƽ", "ƽ", "ƾ", "ƿ", "Ǆ", "ǅ", "ǆ", "Ǉ", "ǈ", "ǉ", "Ǌ", "ǋ", "ǌ", "Ǎ", "ǎ", "Ǐ", "ǐ",
     "Ǒ", "ǒ", "Ǔ", "ǔ", "Ǖ", "ǖ", "Ǘ", "ǘ", "Ǚ", "ǚ", "Ǜ", "ǜ", "ǝ", "Ǟ", "ǟ", "Ǡ", "ǡ", "Ǣ",
     "ǣ", "Ǥ", "ǥ", "Ǧ", "ǧ", "Ǩ", "ǩ", "Ǫ", "ǫ", "Ǭ", "ǭ", "Ǯ", "ǯ", "ǰ", "Ǳ", "ǲ", "ǳ", "Ǵ",
     "ǵ", "Ƕ", "Ƿ", "Ǹ", "ǹ", "Ǻ", "ǻ", "Ǽ", "ǽ", "Ǿ", "ǿ", "U+0200", "U+0201", "U+0202",
     "U+0203", "U+0204", "U+0205", "U+0206", "U+0207", "U+0208", "U+0209", "U+020A", "U+020B",
     "U+020C", "U+020D", "U+020E", "U+020F", "U+0210", "U+0211", "U+0212", "U+0213", "U+0214",
     "U+0215", "U+0216", "U+0217", "U+0218", "U+0219", "U+021A", "U+021B", "U+021C", "U+021D",
     "U+021E", "U+021F", "U+0220", "U+0221", "U+0222", "U+0223", "U+0224", "U+0225", "U+0226",
     "U+0227", "U+0228", "U+0229", "U+022A", "U+022B", "U+022C", "U+022D", "U+022E", "U+022F",
     "U+0230", "U+0231", "U+0232", "U+0233", "U+0234", "U+0235", "U+0236", "U+0237", "U+0238",
     "U+0239", "U+023A", "U+023B", "U+023C", "U+023D", "U+023E", "U+023F", "U+0240", "U+0241",
     "U+0242", "U+0243", "U+0244", "U+0245", "U+0246", "U+0247", "U+0248", "U+0249", "U+024A",
     "U+024B", "U+024C", "U+024D", "U+024E", "U+024F", "U+0250", "U+0251", "U+0252", "U+0253",
     "U+0254", "U+0255", "U+0256", "U+0257", "U+0258", "U+0259", "U+025A", "U+025B", "U+025C",
     "U+025D", "U+025E", "U+025F", "U+0260", "U+0261", "U+0262", "U+0263", "U+0264", "U+0265",
     "U+0266", "U+0267", "U+0268", "U+0269", "U+026A", "U+026B", "U+026C", "U+026D", "U+026E",
     "U+026F", "U+0270", "U+0271", "U+0272", "U+0273", "U+0274", "U+0275", "U+0276", "U+0277",
     "U+0278", "U+0279", "U+027A", "U+027B", "U+027C", "U+027D", "U+027E", "U+027F", "ʀ", "ʁ",
     "ʂ", "ʃ", "ʄ", "ʅ", "ʆ", "ʇ", "ʈ", "ʉ", "ʊ", "ʋ", "ʌ", "ʍ", "ʎ", "ʏ", "ʐ", "ʑ", "ʒ", "ʓ",
     "ʕ", "ʖ", "ʗ", "ʘ", "ʙ", "ʚ", "ʛ", "ʜ", "ʝ", "ʞ", "ʟ", "ʠ", "ʡ", "ʢ", "ʣ", "ʤ", "ʥ", "ʦ",
     "ʧ", "ʨ", "ʩ", "ʪ", "ʫ", "ʬ", "ʭ", "ʮ", "ʯ", "U+0370", "U+0371", "U+0372", "U+0373",
     "U+0376", "U+0377", "U+037B", "U+037C", "U+037D", "U+037F", "Ά", "Έ", "Ή", "Ί", "Ό", "Ύ",
     "Ώ", "ΐ", "Α", "Β", "Γ", "Δ", "Ε", "Ζ", "Η", "Θ", "Ι", "Κ", "Λ", "Μ", "Ν", "Ξ", "Ο", "Π",
     "Ρ", "Σ", "Τ", "Υ", "Φ", "Χ", "Ψ", "Ω", "Ϊ", "Ϋ", "ά", "έ", "ή", "ί", "ΰ", "α", "β", "γ",
     "δ", "ε", "ζ", "η", "θ", "ι", "κ", "λ", "μ", "ν", "ξ", "ο", "π", "ρ", "ς", "σ", "τ", "υ",
     "φ", "χ", "ψ", "ω", "ϊ", "ϋ", "ό", "ύ", "ώ", "Ϗ", "ϐ", "ϑ", "ϒ", "ϓ", "ϔ", "ϕ", "ϖ", "ϗ",
     "Ϙ", "ϙ", "Ϛ", "ϛ", "Ϝ", "ϝ", "Ϟ", "ϟ", "Ϡ", "ϡ", "Ϣ", "ϣ", "Ϥ", "ϥ", "Ϧ", "ϧ", "Ϩ", "ϩ",
     "Ϫ", "ϫ", "Ϭ", "ϭ", "Ϯ", "ϯ", "ϰ", "ϱ", "ϲ", "ϳ", "ϴ", "ϵ", "Ϸ", "ϸ", "Ϲ", "Ϻ", "ϻ", "ϼ",
     "Ͻ", "Ͼ", "Ͽ", "U+0400", "U+0401", "U+0402", "U+0403", "U+0404", "U+0405", "U+0406",
     "U+0407", "U+0408", "U+0409", "U+040A", "U+040B", "U+040C", "U+040D", "U+040E", "U+040F",
     "U+0410", "U+0411", "U+0412", "U+0413", "U+0414", "U+0415", "U+0416", "U+0417", "U+0418",
     "U+0419", "U+041A", "U+041B", "U+041C", "U+041D", "U+041E", "U+041F", "U+0420", "U+0421",
     "U+0422", "U+0423", "U+0424", "U+0425", "U+0426", "U+0427", "U+0428", "U+0429", "U+042A",
     "U+042B", "U+042C", "U+042D", "U+042E", "U+042F", "U+0430", "U+0431", "U+0432", "U+0433",
     "U+0434", "U+0435", "U+0436", "U+0437", "U+0438", "U+0439", "U+043A", "U+043B", "U+043C",
     "U+043D", "U+043E", "U+043F", "U+0440", "U+0441", "U+0442", "U+0443", "U+0444", "U+0445",
     "U+0446", "U+0447", "U+0448", "U+0449", "U+044A", "U+044B", "U+044C", "U+044D", "U+044E",
     "U+044F", "U+0450", "U+0451", "U+0452", "U+0453", "U+0454", "U+0455", "U+0456", "U+0457",
     "U+0458", "U+0459", "U+045A", "U+045B", "U+045C", "U+045D", "U+045E", "U+045F", "U+0460",
     "U+0461", "U+0462", "U+0463", "U+0464", "U+0465", "U+0466", "U+0467", "U+0468", "U+0469",
     "U+046A", "U+046B", "U+046C", "U+046D", "U+046E", "U+046F", "U+0470", "U+0471", "U+0472",
     "U+0473", "U+0474", "U+0475", "U+0476", "U+0477", "U+0478", "U+0479", "U+047A", "U+047B",
     "U+047C", "U+047D", "U+047E", "U+047F", "Ҁ", "ҁ", "Ҋ", "ҋ", "Ҍ", "ҍ", "Ҏ", "ҏ", "Ґ", "ґ",
     "Ғ", "ғ", "Ҕ", "ҕ", "Җ", "җ", "Ҙ", "ҙ", "Қ", "қ", "Ҝ", "ҝ", "Ҟ", "ҟ", "Ҡ", "ҡ", "Ң", "ң",
     "Ҥ", "ҥ", "Ҧ", "ҧ", "Ҩ", "ҩ", "Ҫ", "ҫ", "Ҭ", "ҭ", "Ү", "ү", "Ұ", "ұ", "Ҳ", "ҳ", "Ҵ", "ҵ",
     "Ҷ", "ҷ", "Ҹ", "ҹ", "Һ", "һ", "Ҽ", "ҽ", "Ҿ", "ҿ", "Ӏ", "Ӂ", "ӂ", "Ӄ", "ӄ", "Ӆ", "ӆ", "Ӈ",
     "ӈ", "Ӊ", "ӊ", "Ӌ", "ӌ", "Ӎ", "ӎ", "ӏ", "Ӑ", "ӑ", "Ӓ", "ӓ", "Ӕ", "ӕ", "Ӗ", "ӗ", "Ә", "ә",
     "Ӛ", "ӛ", "Ӝ", "ӝ", "Ӟ", "ӟ", "Ӡ", "ӡ", "Ӣ", "ӣ", "Ӥ", "ӥ", "Ӧ", "ӧ", "Ө", "ө", "Ӫ", "ӫ",
     "Ӭ", "ӭ", "Ӯ", "ӯ", "Ӱ", "ӱ", "Ӳ", "ӳ", "Ӵ", "ӵ", "Ӷ", "ӷ", "Ӹ", "ӹ", "Ӻ", "ӻ", "Ӽ", "ӽ",
     "Ӿ", "ӿ", "U+0500", "U+0501", "U+0502", "U+0503", "U+0504", "U+0505", "U+0506", "U+0507",
     "U+0508", "U+0509", "U+050A", "U+050B", "U+050C", "U+050D", "U+050E", "U+050F", "U+0510",
     "U+0511", "U+0512", "U+0513", "U+0514", "U+0515", "U+0516", "U+0517", "U+0518", "U+0519",
     "U+051A", "U+051B", "U+051C", "U+051D", "U+051E", "U+051F", "U+0520", "U+0521", "U+0522",
     "U+0523", "U+0524", "U+0525", "U+0526", "U+0527", "U+0528", "U+0529", "U+052A", "U+052B",
     "U+052C", "U+052D", "U+052E", "U+052F", "U+0531", "U+0532", "U+0533", "U+0534", "U+0535",
     "U+0536", "U+0537", "U+0538", "U+0539", "U+053A", "U+053B", "U+053C", "U+053D", "U+053E",
     "U+053F", "U+0540", "U+0541", "U+0542", "U+0543", "U+0544", "U+0545", "U+0546", "U+0547",
     "U+0548", "U+0549", "U+054A", "U+054B", "U+054C", "U+054D", "U+054E", "U+054F", "U+0550",
     "U+0551", "U+0552", "U+0553", "U+0554", "U+0555", "U+0556", "U+0560", "U+0561", "U+0562",
     "U+0563", "U+0564", "U+0565", "U+0566", "U+0567", "U+0568", "U+0569", "U+056A", "U+056B",
     "U+056C", "U+056D", "U+056E", "U+056F", "U+0570", "U+0571", "U+0572", "U+0573", "U+0574",
     "U+0575", "U+0576", "U+0577", "U+0578", "U+0579", "U+057A", "U+057B", "U+057C", "U+057D",
     "U+057E", "U+057F", "ր", "ց", "ւ", "փ", "ք", "օ", "ֆ", "և", "ֈ", "Ⴀ", "Ⴁ", "Ⴂ", "Ⴃ", "Ⴄ",
     "Ⴅ", "Ⴆ", "Ⴇ", "Ⴈ", "Ⴉ", "Ⴊ", "Ⴋ", "Ⴌ", "Ⴍ", "Ⴎ", "Ⴏ", "Ⴐ", "Ⴑ", "Ⴒ", "Ⴓ", "Ⴔ", "Ⴕ", "Ⴖ",
     "Ⴗ", "Ⴘ", "Ⴙ", "Ⴚ", "Ⴛ", "Ⴜ", "Ⴝ", "Ⴞ", "Ⴟ", "Ⴠ", "Ⴡ", "Ⴢ", "Ⴣ", "Ⴤ", "Ⴥ", "Ⴧ", "Ⴭ", "ა",
     "ბ", "გ", "დ", "ე", "ვ", "ზ", "თ", "ი", "კ", "ლ", "მ", "ნ", "ო", "პ", "ჟ", "რ", "ს", "ტ",
     "უ", "ფ", "ქ", "ღ", "ყ", "შ", "ჩ", "ც", "ძ", "წ", "ჭ", "ხ", "ჯ", "ჰ", "ჱ", "ჲ", "ჳ", "ჴ",
     "ჵ", "ჶ", "ჷ", "ჸ", "ჹ", "ჺ", "ჽ", "ჾ", "ჿ", "Ꭰ", "Ꭱ", "Ꭲ", "Ꭳ", "Ꭴ", "Ꭵ", "Ꭶ", "Ꭷ", "Ꭸ",
     "Ꭹ", "Ꭺ", "Ꭻ", "Ꭼ", "Ꭽ", "Ꭾ", "Ꭿ", "Ꮀ", "Ꮁ", "Ꮂ", "Ꮃ", "Ꮄ", "Ꮅ", "Ꮆ", "Ꮇ", "Ꮈ", "Ꮉ", "Ꮊ",
     "Ꮋ", "Ꮌ", "Ꮍ", "Ꮎ", "Ꮏ", "Ꮐ", "Ꮑ", "Ꮒ", "Ꮓ", "Ꮔ", "Ꮕ", "Ꮖ", "Ꮗ", "Ꮘ", "Ꮙ", "Ꮚ", "Ꮛ", "Ꮜ",
     "Ꮝ", "Ꮞ", "Ꮟ", "Ꮠ", "Ꮡ", "Ꮢ", "Ꮣ", "Ꮤ", "Ꮥ", "Ꮦ", "Ꮧ", "Ꮨ", "Ꮩ", "Ꮪ", "Ꮫ", "Ꮬ", "Ꮭ", "Ꮮ",
     "Ꮯ", "Ꮰ", "Ꮱ", "Ꮲ", "Ꮳ", "Ꮴ", "Ꮵ", "Ꮶ", "Ꮷ", "Ꮸ", "Ꮹ", "Ꮺ", "Ꮻ", "Ꮼ", "Ꮽ", "Ꮾ", "Ꮿ", "Ᏸ",
     "Ᏹ", "Ᏺ", "Ᏻ", "Ᏼ", "Ᏽ", "ᏸ", "ᏹ", "ᏺ", "ᏻ", "ᏼ", "ᏽ", "ᲀ", "ᲁ", "ᲂ", "ᲃ", "ᲄ", "ᲅ", "ᲆ",
     "ᲇ", "ᲈ", "Ა", "Ბ", "Გ", "Დ", "Ე", "Ვ", "Ზ", "Თ", "Ი", "Კ", "Ლ", "Მ", "Ნ", "Ო", "Პ", "Ჟ",
     "Რ", "Ს", "Ტ", "Უ", "Ფ", "Ქ", "Ღ", "Ყ", "Შ", "Ჩ", "Ც", "Ძ", "Წ", "Ჭ", "Ხ", "Ჯ", "Ჰ", "Ჱ",
     "Ჲ", "Ჳ", "Ჴ", "Ჵ", "Ჶ", "Ჷ", "Ჸ", "Ჹ", "Ჺ", "Ჽ", "Ჾ", "Ჿ", "U+1D00", "U+1D01", "U+1D02",
     "U+1D03", "U+1D04", "U+1D05", "U+1D06", "U+1D07", "U+1D08", "U+1D09", "U+1D0A", "U+1D0B",
     "U+1D0C", "U+1D0D", "U+1D0E", "U+1D0F", "U+1D10", "U+1D11", "U+1D12", "U+1D13", "U+1D14",
     "U+1D15", "U+1D16", "U+1D17", "U+1D18", "U+1D19", "U+1D1A", "U+1D1B", "U+1D1C", "U+1D1D",
     "U+1D1E", "U+1D1F", "U+1D20", "U+1D21", "U+1D22", "U+1D23", "U+1D24", "U+1D25", "U+1D26",
     "U+1D27", "U+1D28", "U+1D29", "U+1D2A", "U+1D2B", "U+1D6B", "U+1D6C", "U+1D6D", "U+1D6E",
     "U+1D6F", "U+1D70", "U+1D71", "U+1D72", "U+1D73", "U+1D74", "U+1D75", "U+1D76", "U+1D77",
     "U+1D79", "U+1D7A", "U+1D7B", "U+1D7C", "U+1D7D", "U+1D7E", "U+1D7F", "ᶀ", "ᶁ", "ᶂ", "ᶃ",
     "ᶄ", "ᶅ", "ᶆ", "ᶇ", "ᶈ", "ᶉ", "ᶊ", "ᶋ", "ᶌ", "ᶍ", "ᶎ", "ᶏ", "ᶐ", "ᶑ", "ᶒ", "ᶓ", "ᶔ", "ᶕ",
     "ᶖ", "ᶗ", "ᶘ", "ᶙ", "ᶚ", "U+1E00", "U+1E01", "U+1E02", "U+1E03", "U+1E04", "U+1E05",
     "U+1E06", "U+1E07", "U+1E08", "U+1E09", "U+1E0A", "U+1E0B", "U+1E0C", "U+1E0D", "U+1E0E",
     "U+1E0F", "U+1E10", "U+1E11", "U+1E12", "U+1E13", "U+1E14", "U+1E15", "U+1E16", "U+1E17",
     "U+1E18", "U+1E19", "U+1E1A", "U+1E1B", "U+1E1C", "U+1E1D", "U+1E1E", "U+1E1F", "U+1E20",
     "U+1E21", "U+1E22", "U+1E23", "U+1E24", "U+1E25", "U+1E26", "U+1E27", "U+1E28", "U+1E29",
     "U+1E2A", "U+1E2B", "U+1E2C", "U+1E2D", "U+1E2E", "U+1E2F", "U+1E30", "U+1E31", "U+1E32",
     "U+1E33", "U+1E34", "U+1E35", "U+1E36", "U+1E37", "U+1E38", "U+1E39", "U+1E3A", "U+1E3B",
     "U+1E3C", "U+1E3D", "U+1E3E", "U+1E3F", "U+1E40", "U+1E41", "U+1E42", "U+1E43", "U+1E44",
     "U+1E45", "U+1E46", "U+1E47", "U+1E48", "U+1E49", "U+1E4A", "U+1E4B", "U+1E4C", "U+1E4D",
     "U+1E4E", "U+1E4F", "U+1E50", "U+1E51", "U+1E52", "U+1E53", "U+1E54", "U+1E55", "U+1E56",
     "U+1E57", "U+1E58", "U+1E59", "U+1E5A", "U+1E5B", "U+1E5C", "U+1E5D", "U+1E5E", "U+1E5F",
     "U+1E60", "U+1E61", "U+1E62", "U+1E63", "U+1E64", "U+1E65", "U+1E66", "U+1E67", "U+1E68",
     "U+1E69", "U+1E6A", "U+1E6B", "U+1E6C", "U+1E6D", "U+1E6E", "U+1E6F", "U+1E70", "U+1E71",
     "U+1E72", "U+1E73", "U+1E74", "U+1E75", "U+1E76", "U+1E77", "U+1E78", "U+1E79", "U+1E7A",
     "U+1E7B", "U+1E7C", "U+1E7D", "U+1E7E", "U+1E7F", "Ẁ", "ẁ", "Ẃ", "ẃ", "Ẅ", "ẅ", "Ẇ", "ẇ",
     "Ẉ", "ẉ", "Ẋ", "ẋ", "Ẍ", "ẍ", "Ẏ", "ẏ", "Ẑ", "ẑ", "Ẓ", "ẓ", "Ẕ", "ẕ", "ẖ", "ẗ", "ẘ", "ẙ",
     "ẚ", "ẛ", "ẜ", "ẝ", "ẞ", "ẟ", "Ạ", "ạ", "Ả", "ả", "Ấ", "ấ", "Ầ", "ầ", "Ẩ", "ẩ", "Ẫ", "ẫ",
     "Ậ", "ậ", "Ắ", "ắ", "Ằ", "ằ", "Ẳ", "ẳ", "Ẵ", "ẵ", "Ặ", "ặ", "Ẹ", "ẹ", "Ẻ", "ẻ", "Ẽ", "ẽ",
     "Ế", "ế", "Ề", "ề", "Ể", "ể", "Ễ", "ễ", "Ệ", "ệ", "Ỉ", "ỉ", "Ị", "ị", "Ọ", "ọ", "Ỏ", "ỏ",
     "Ố", "ố", "Ồ", "ồ", "Ổ", "ổ", "Ỗ", "ỗ", "Ộ", "ộ", "Ớ", "ớ", "Ờ", "ờ", "Ở", "ở", "Ỡ", "ỡ",
     "Ợ", "ợ", "Ụ", "ụ", "Ủ", "ủ", "Ứ", "ứ", "Ừ", "ừ", "Ử", "ử", "Ữ", "ữ", "Ự", "ự", "Ỳ", "ỳ",
     "Ỵ", "ỵ", "Ỷ", "ỷ", "Ỹ", "ỹ", "Ỻ", "ỻ", "Ỽ", "ỽ", "Ỿ", "ỿ", "U+1F00", "U+1F01", "U+1F02",
     "U+1F03", "U+1F04", "U+1F05", "U+1F06", "U+1F07", "U+1F08", "U+1F09", "U+1F0A", "U+1F0B",
     "U+1F0C", "U+1F0D", "U+1F0E", "U+1F0F", "U+1F10", "U+1F11", "U+1F12", "U+1F13", "U+1F14",
     "U+1F15", "U+1F18", "U+1F19", "U+1F1A", "U+1F1B", "U+1F1C", "U+1F1D", "U+1F20", "U+1F21",
     "U+1F22", "U+1F23", "U+1F24", "U+1F25", "U+1F26", "U+1F27", "U+1F28", "U+1F29", "U+1F2A",
     "U+1F2B", "U+1F2C", "U+1F2D", "U+1F2E", "U+1F2F", "U+1F30", "U+1F31", "U+1F32", "U+1F33",
     "U+1F34", "U+1F35", "U+1F36", "U+1F37", "U+1F38", "U+1F39", "U+1F3A", "U+1F3B", "U+1F3C",
     "U+1F3D", "U+1F3E", "U+1F3F", "U+1F40", "U+1F41", "U+1F42", "U+1F43", "U+1F44", "U+1F45",
     "U+1F48", "U+1F49", "U+1F4A", "U+1F4B", "U+1F4C", "U+1F4D", "U+1F50", "U+1F51", "U+1F52",
     "U+1F53", "U+1F54", "U+1F55", "U+1F56", "U+1F57", "U+1F59", "U+1F5B", "U+1F5D", "U+1F5F",
     "U+1F60", "U+1F61", "U+1F62", "U+1F63", "U+1F64", "U+1F65", "U+1F66", "U+1F67", "U+1F68",
     "U+1F69", "U+1F6A", "U+1F6B", "U+1F6C", "U+1F6D", "U+1F6E", "U+1F6F", "U+1F70", "U+1F71",
     "U+1F72", "U+1F73", "U+1F74", "U+1F75", "U+1F76", "U+1F77", "U+1F78", "U+1F79", "U+1F7A",
     "U+1F7B", "U+1F7C", "U+1F7D", "ᾀ", "ᾁ", "ᾂ", "ᾃ", "ᾄ", "ᾅ", "ᾆ", "ᾇ", "ᾈ", "ᾉ", "ᾊ", "ᾋ",
     "ᾌ", "ᾍ", "ᾎ", "ᾏ", "ᾐ", "ᾑ", "ᾒ", "ᾓ", "ᾔ", "ᾕ", "ᾖ", "ᾗ", "ᾘ", "ᾙ", "ᾚ", "ᾛ", "ᾜ", "ᾝ",
     "ᾞ", "ᾟ", "ᾠ", "ᾡ", "ᾢ", "ᾣ", "ᾤ", "ᾥ", "ᾦ", "ᾧ", "ᾨ", "ᾩ", "ᾪ", "ᾫ", "ᾬ", "ᾭ", "ᾮ", "ᾯ",
     "ᾰ", "ᾱ", "ᾲ", "ᾳ", "ᾴ", "ᾶ", "ᾷ", "Ᾰ", "Ᾱ", "Ὰ", "Ά", "ᾼ", "ι", "ῂ", "ῃ", "ῄ", "ῆ", "ῇ",
     "Ὲ", "Έ", "Ὴ", "Ή", "ῌ", "ῐ", "ῑ", "ῒ", "ΐ", "ῖ", "ῗ", "Ῐ", "Ῑ", "Ὶ", "Ί", "ῠ", "ῡ", "ῢ",
     "ΰ", "ῤ", "ῥ", "ῦ", "ῧ", "Ῠ", "Ῡ", "Ὺ", "Ύ", "Ῥ", "ῲ", "ῳ", "ῴ", "ῶ", "ῷ", "Ὸ", "Ό", "Ὼ",
     "Ώ", "ῼ", "U+2102", "U+2107", "U+210A", "U+210B", "U+210C", "U+210D", "U+210E", "U+210F",
     "U+2110", "U+2111", "U+2112", "U+2113", "U+2115", "U+2119", "U+211A", "U+211B", "U+211C",
     "U+211D", "U+2124", "U+2126", "U+2128", "U+212A", "U+212B", "U+212C", "U+212D", "U+212F",
     "U+2130", "U+2131", "U+2132", "U+2133", "U+2134", "U+2139", "U+213C", "U+213D", "U+213E",
     "U+213F", "U+2145", "U+2146", "U+2147", "U+2148", "U+2149", "U+214E", "U+2160", "U+2161",
     "U+2162", "U+2163", "U+2164", "U+2165", "U+2166", "U+2167", "U+2168", "U+2169", "U+216A",
     "U+216B", "U+216C", "U+216D", "U+216E", "U+216F", "U+2170", "U+2171", "U+2172", "U+2173",
     "U+2174", "U+2175", "U+2176", "U+2177", "U+2178", "U+2179", "U+217A", "U+217B", "U+217C",
     "U+217D", "U+217E", "U+217F", "Ↄ", "ↄ", "Ⓐ", "Ⓑ", "Ⓒ", "Ⓓ", "Ⓔ", "Ⓕ", "Ⓖ", "Ⓗ", "Ⓘ", "Ⓙ",
     "Ⓚ", "Ⓛ", "Ⓜ", "Ⓝ", "Ⓞ", "Ⓟ", "Ⓠ", "Ⓡ", "Ⓢ", "Ⓣ", "Ⓤ", "Ⓥ", "Ⓦ", "Ⓧ", "Ⓨ", "Ⓩ", "ⓐ", "ⓑ",
     "ⓒ", "ⓓ", "ⓔ", "ⓕ", "ⓖ", "ⓗ", "ⓘ", "ⓙ", "ⓚ", "ⓛ", "ⓜ", "ⓝ", "ⓞ", "ⓟ", "ⓠ", "ⓡ", "ⓢ", "ⓣ",
     "ⓤ", "ⓥ", "ⓦ", "ⓧ", "ⓨ", "ⓩ", "U+2C00", "U+2C01", "U+2C02", "U+2C03", "U+2C04", "U+2C05",
     "U+2C06", "U+2C07", "U+2C08", "U+2C09", "U+2C0A", "U+2C0B", "U+2C0C", "U+2C0D", "U+2C0E",
     "U+2C0F", "U+2C10", "U+2C11", "U+2C12", "U+2C13", "U+2C14", "U+2C15", "U+2C16", "U+2C17",
     "U+2C18", "U+2C19", "U+2C1A", "U+2C1B", "U+2C1C", "U+2C1D", "U+2C1E", "U+2C1F", "U+2C20",
     "U+2C21", "U+2C22", "U+2C23", "U+2C24", "U+2C25", "U+2C26", "U+2C27", "U+2C28", "U+2C29",
     "U+2C2A", "U+2C2B", "U+2C2C", "U+2C2D", "U+2C2E", "U+2C2F", "U+2C30", "U+2C31", "U+2C32",
     "U+2C33", "U+2C34", "U+2C35", "U+2C36", "U+2C37", "U+2C38", "U+2C39", "U+2C3A", "U+2C3B",
     "U+2C3C", "U+2C3D", "U+2C3E", "U+2C3F", "U+2C40", "U+2C41", "U+2C42", "U+2C43", "U+2C44",
     "U+2C45", "U+2C46", "U+2C47", "U+2C48", "U+2C49", "U+2C4A", "U+2C4B", "U+2C4C", "U+2C4D",
     "U+2C4E", "U+2C4F", "U+2C50", "U+2C51", "U+2C52", "U+2C53", "U+2C54", "U+2C55", "U+2C56",
     "U+2C57", "U+2C58", "U+2C59", "U+2C5A", "U+2C5B", "U+2C5C", "U+2C5D", "U+2C5E", "U+2C5F",
     "U+2C60", "U+2C61", "U+2C62", "U+2C63", "U+2C64", "U+2C65", "U+2C66", "U+2C67", "U+2C68",
     "U+2C69", "U+2C6A", "U+2C6B", "U+2C6C", "U+2C6D", "U+2C6E", "U+2C6F", "U+2C70", "U+2C71",
     "U+2C72", "U+2C73", "U+2C74", "U+2C75", "U+2C76", "U+2C77", "U+2C78", "U+2C79", "U+2C7A",
     "U+2C7B", "U+2C7E", "U+2C7F", "Ⲁ", "ⲁ", "Ⲃ", "ⲃ", "Ⲅ", "ⲅ", "Ⲇ", "ⲇ", "Ⲉ", "ⲉ", "Ⲋ", "ⲋ",
     "Ⲍ", "ⲍ", "Ⲏ", "ⲏ", "Ⲑ", "ⲑ", "Ⲓ", "ⲓ", "Ⲕ", "ⲕ", "Ⲗ", "ⲗ", "Ⲙ", "ⲙ", "Ⲛ", "ⲛ", "Ⲝ", "ⲝ",
     "Ⲟ", "ⲟ", "Ⲡ", "ⲡ", "Ⲣ", "ⲣ", "Ⲥ", "ⲥ", "Ⲧ", "ⲧ", "Ⲩ", "ⲩ", "Ⲫ", "ⲫ", "Ⲭ", "ⲭ", "Ⲯ", "ⲯ",
     "Ⲱ", "ⲱ", "Ⲳ", "ⲳ", "Ⲵ", "ⲵ", "Ⲷ", "ⲷ", "Ⲹ", "ⲹ", "Ⲻ", "ⲻ", "Ⲽ", "ⲽ", "Ⲿ", "ⲿ", "Ⳁ", "ⳁ",
     "Ⳃ", "ⳃ", "Ⳅ", "ⳅ", "Ⳇ", "ⳇ", "Ⳉ", "ⳉ", "Ⳋ", "ⳋ", "Ⳍ", "ⳍ", "Ⳏ", "ⳏ", "Ⳑ", "ⳑ", "Ⳓ", "ⳓ",
     "Ⳕ", "ⳕ", "Ⳗ", "ⳗ", "Ⳙ", "ⳙ", "Ⳛ", "ⳛ", "Ⳝ", "ⳝ", "Ⳟ", "ⳟ", "Ⳡ", "ⳡ", "Ⳣ", "ⳣ", "ⳤ", "Ⳬ",
     "ⳬ", "Ⳮ", "ⳮ", "Ⳳ", "ⳳ", "U+2D00", "U+2D01", "U+2D02", "U+2D03", "U+2D04", "U+2D05",
     "U+2D06", "U+2D07", "U+2D08", "U+2D09", "U+2D0A", "U+2D0B", "U+2D0C", "U+2D0D", "U+2D0E",
     "U+2D0F", "U+2D10", "U+2D11", "U+2D12", "U+2D13", "U+2D14", "U+2D15", "U+2D16", "U+2D17",
     "U+2D18", "U+2D19", "U+2D1A", "U+2D1B", "U+2D1C", "U+2D1D", "U+2D1E", "U+2D1F", "U+2D20",
     "U+2D21", "U+2D22", "U+2D23", "U+2D24", "U+2D25", "U+2D27", "U+2D2D", "U+A640", "U+A641",
     "U+A642", "U+A643", "U+A644", "U+A645", "U+A646", "U+A647", "U+A648", "U+A649", "U+A64A",
     "U+A64B", "U+A64C", "U+A64D", "U+A64E", "U+A64F", "U+A650", "U+A651", "U+A652", "U+A653",
     "U+A654", "U+A655", "U+A656", "U+A657", "U+A658", "U+A659", "U+A65A", "U+A65B", "U+A65C",
     "U+A65D", "U+A65E", "U+A65F", "U+A660", "U+A661", "U+A662", "U+A663", "U+A664", "U+A665",
     "U+A666", "U+A667", "U+A668", "U+A669", "U+A66A", "U+A66B", "U+A66C", "U+A66D", "Ꚁ", "ꚁ",
     "Ꚃ", "ꚃ", "Ꚅ", "ꚅ", "Ꚇ", "ꚇ", "Ꚉ", "ꚉ", "Ꚋ", "ꚋ", "Ꚍ", "ꚍ", "Ꚏ", "ꚏ", "Ꚑ", "ꚑ", "Ꚓ", "ꚓ",
     "Ꚕ", "ꚕ", "Ꚗ", "ꚗ", "Ꚙ", "ꚙ", "Ꚛ", "ꚛ", "U+A722", "U+A723", "U+A724", "U+A725", "U+A726",
     "U+A727", "U+A728", "U+A729", "U+A72A", "U+A72B", "U+A72C", "U+A72D", "U+A72E", "U+A72F",
     "U+A730", "U+A731", "U+A732", "U+A733", "U+A734", "U+A735", "U+A736", "U+A737", "U+A738",
     "U+A739", "U+A73A", "U+A73B", "U+A73C", "U+A73D", "U+A73E", "U+A73F", "U+A740", "U+A741",
     "U+A742", "U+A743", "U+A744", "U+A745", "U+A746", "U+A747", "U+A748", "U+A749", "U+A74A",
     "U+A74B", "U+A74C", "U+A74D", "U+A74E", "U+A74F", "U+A750", "U+A751", "U+A752", "U+A753",
     "U+A754", "U+A755", "U+A756", "U+A757", "U+A758", "U+A759", "U+A75A", "U+A75B", "U+A75C",
     "U+A75D", "U+A75E", "U+A75F", "U+A760", "U+A761", "U+A762", "U+A763", "U+A764", "U+A765",
     "U+A766", "U+A767", "U+A768", "U+A769", "U+A76A", "U+A76B", "U+A76C", "U+A76D", "U+A76E",
     "U+A76F", "U+A771", "U+A772", "U+A773", "U+A774", "U+A775", "U+A776", "U+A777", "U+A778",
     "U+A779", "U+A77A", "U+A77B", "U+A77C", "U+A77D", "U+A77E", "U+A77F", "Ꞁ", "ꞁ", "Ꞃ", "ꞃ",
     "Ꞅ", "ꞅ", "Ꞇ", "ꞇ", "Ꞌ", "ꞌ", "Ɥ", "ꞎ", "Ꞑ", "ꞑ", "Ꞓ", "ꞓ", "ꞔ", "ꞕ", "Ꞗ", "ꞗ", "Ꞙ", "ꞙ",
     "Ꞛ", "ꞛ", "Ꞝ", "ꞝ", "Ꞟ", "ꞟ", "Ꞡ", "ꞡ", "Ꞣ", "ꞣ", "Ꞥ", "ꞥ", "Ꞧ", "ꞧ", "Ꞩ", "ꞩ", "Ɦ", "Ɜ",
     "Ɡ", "Ɬ", "Ɪ", "ꞯ", "Ʞ", "Ʇ", "Ʝ", "Ꭓ", "Ꞵ", "ꞵ", "Ꞷ", "ꞷ", "Ꞹ", "ꞹ", "Ꞻ", "ꞻ", "Ꞽ", "ꞽ",
     "Ꞿ", "ꞿ", "Ꟁ", "ꟁ", "Ꟃ", "ꟃ", "Ꞔ", "Ʂ", "Ᶎ", "Ꟈ", "ꟈ", "Ꟊ", "ꟊ", "Ꟑ", "ꟑ", "ꟓ", "ꟕ", "Ꟗ",
     "ꟗ", "Ꟙ", "ꟙ", "Ꟶ", "ꟶ", "ꟺ", "U+AB30", "U+AB31", "U+AB32", "U+AB33", "U+AB34", "U+AB35",
     "U+AB36", "U+AB37", "U+AB38", "U+AB39", "U+AB3A", "U+AB3B", "U+AB3C", "U+AB3D", "U+AB3E",
     "U+AB3F", "U+AB40", "U+AB41", "U+AB42", "U+AB43", "U+AB44", "U+AB45", "U+AB46", "U+AB47",
     "U+AB48", "U+AB49", "U+AB4A", "U+AB4B", "U+AB4C", "U+AB4D", "U+AB4E", "U+AB4F", "U+AB50",
     "U+AB51", "U+AB52", "U+AB53", "U+AB54", "U+AB55", "U+AB56", "U+AB57", "U+AB58", "U+AB59",
     "U+AB5A", "U+AB60", "U+AB61", "U+AB62", "U+AB63", "U+AB64", "U+AB65", "U+AB66", "U+AB67",
     "U+AB68", "U+AB70", "U+AB71", "U+AB72", "U+AB73", "U+AB74", "U+AB75", "U+AB76", "U+AB77",
     "U+AB78", "U+AB79", "U+AB7A", "U+AB7B", "U+AB7C", "U+AB7D", "U+AB7E", "U+AB7F", "ꮀ", "ꮁ",
     "ꮂ", "ꮃ", "ꮄ", "ꮅ", "ꮆ", "ꮇ", "ꮈ", "ꮉ", "ꮊ", "ꮋ", "ꮌ", "ꮍ", "ꮎ", "ꮏ", "ꮐ", "ꮑ", "ꮒ", "ꮓ",
     "ꮔ", "ꮕ", "ꮖ", "ꮗ", "ꮘ", "ꮙ", "ꮚ", "ꮛ", "ꮜ", "ꮝ", "ꮞ", "ꮟ", "ꮠ", "ꮡ", "ꮢ", "ꮣ", "ꮤ", "ꮥ",
     "ꮦ", "ꮧ", "ꮨ", "ꮩ", "ꮪ", "ꮫ", "ꮬ", "ꮭ", "ꮮ", "ꮯ", "ꮰ", "ꮱ", "ꮲ", "ꮳ", "ꮴ", "ꮵ", "ꮶ", "ꮷ",
     "ꮸ", "ꮹ", "ꮺ", "ꮻ", "ꮼ", "ꮽ", "ꮾ", "ꮿ", "U+FB00", "U+FB01", "U+FB02", "U+FB03", "U+FB04",
     "U+FB05", "U+FB06", "U+FB13", "U+FB14", "U+FB15", "U+FB16", "U+FB17", "U+FF21", "U+FF22",
     "U+FF23", "U+FF24", "U+FF25", "U+FF26", "U+FF27", "U+FF28", "U+FF29", "U+FF2A", "U+FF2B",
     "U+FF2C", "U+FF2D", "U+FF2E", "U+FF2F", "U+FF30", "U+FF31", "U+FF32", "U+FF33", "U+FF34",
     "U+FF35", "U+FF36", "U+FF37", "U+FF38", "U+FF39", "U+FF3A", "U+FF41", "U+FF42", "U+FF43",
     "U+FF44", "U+FF45", "U+FF46", "U+FF47", "U+FF48", "U+FF49", "U+FF4A", "U+FF4B", "U+FF4C",
     "U+FF4D", "U+FF4E", "U+FF4F", "U+FF50", "U+FF51", "U+FF52", "U+FF53", "U+FF54", "U+FF55",
     "U+FF56", "U+FF57", "U+FF58", "U+FF59", "U+FF5A", "U+10400", "U+10401", "U+10402",
     "U+10403", "U+10404", "U+10405", "U+10406", "U+10407", "U+10408", "U+10409", "U+1040A",
     "U+1040B", "U+1040C", "U+1040D", "U+1040E", "U+1040F", "U+10410", "U+10411", "U+10412",
     "U+10413", "U+10414", "U+10415", "U+10416", "U+10417", "U+10418", "U+10419", "U+1041A",
     "U+1041B", "U+1041C", "U+1041D", "U+1041E", "U+1041F", "U+10420", "U+10421", "U+10422",
     "U+10423", "U+10424", "U+10425", "U+10426", "U+10427", "U+10428", "U+10429", "U+1042A",
     "U+1042B", "U+1042C", "U+1042D", "U+1042E", "U+1042F", "U+10430", "U+10431", "U+10432",
     "U+10433", "U+10434", "U+10435", "U+10436", "U+10437", "U+10438", "U+10439", "U+1043A",
     "U+1043B", "U+1043C", "U+1043D", "U+1043E", "U+1043F", "U+10440", "U+10441", "U+10442",
     "U+10443", "U+10444", "U+10445", "U+10446", "U+10447", "U+10448", "U+10449", "U+1044A",
     "U+1044B", "U+1044C", "U+1044D", "U+1044E", "U+1044F", "U+104B0", "U+104B1", "U+104B2",
     "U+104B3", "U+104B4", "U+104B5", "U+104B6", "U+104B7", "U+104B8", "U+104B9", "U+104BA",
     "U+104BB", "U+104BC", "U+104BD", "U+104BE", "U+104BF", "U+104C0", "U+104C1", "U+104C2",
     "U+104C3", "U+104C4", "U+104C5", "U+104C6", "U+104C7", "U+104C8", "U+104C9", "U+104CA",
     "U+104CB", "U+104CC", "U+104CD", "U+104CE", "U+104CF", "U+104D0", "U+104D1", "U+104D2",
     "U+104D3", "U+104D8", "U+104D9", "U+104DA", "U+104DB", "U+104DC", "U+104DD", "U+104DE",
     "U+104DF", "U+104E0", "U+104E1", "U+104E2", "U+104E3", "U+104E4", "U+104E5", "U+104E6",
     "U+104E7", "U+104E8", "U+104E9", "U+104EA", "U+104EB", "U+104EC", "U+104ED", "U+104EE",
     "U+104EF", "U+104F0", "U+104F1", "U+104F2", "U+104F3", "U+104F4", "U+104F5", "U+104F6",
     "U+104F7", "U+104F8", "U+104F9", "U+104FA", "U+104FB", "U+10570", "U+10571", "U+10572",
     "U+10573", "U+10574", "U+10575", "U+10576", "U+10577", "U+10578", "U+10579", "U+1057A",
     "U+1057C", "U+1057D", "U+1057E", "U+1057F", "U+10580", "U+10581", "U+10582", "U+10583",
     "U+10584", "U+10585", "U+10586", "U+10587", "U+10588", "U+10589", "U+1058A", "U+1058C",
     "U+1058D", "U+1058E", "U+1058F", "U+10590", "U+10591", "U+10592", "U+10594", "U+10595",
     "U+10597", "U+10598", "U+10599", "U+1059A", "U+1059B", "U+1059C", "U+1059D", "U+1059E",
     "U+1059F", "U+105A0", "U+105A1", "U+105A3", "U+105A4", "U+105A5", "U+105A6", "U+105A7",
     "U+105A8", "U+105A9", "U+105AA", "U+105AB", "U+105AC", "U+105AD", "U+105AE", "U+105AF",
     "U+105B0", "U+105B1", "U+105B3", "U+105B4", "U+105B5", "U+105B6", "U+105B7", "U+105B8",
     "U+105B9", "U+105BB", "U+105BC", "U+10C80", "U+10C81", "U+10C82", "U+10C83", "U+10C84",
     "U+10C85", "U+10C86", "U+10C87", "U+10C88", "U+10C89", "U+10C8A", "U+10C8B", "U+10C8C",
     "U+10C8D", "U+10C8E", "U+10C8F", "U+10C90", "U+10C91", "U+10C92", "U+10C93", "U+10C94",
     "U+10C95", "U+10C96", "U+10C97", "U+10C98", "U+10C99", "U+10C9A", "U+10C9B", "U+10C9C",
     "U+10C9D", "U+10C9E", "U+10C9F", "U+10CA0", "U+10CA1", "U+10CA2", "U+10CA3", "U+10CA4",
     "U+10CA5", "U+10CA6", "U+10CA7", "U+10CA8", "U+10CA9", "U+10CAA", "U+10CAB", "U+10CAC",
     "U+10CAD", "U+10CAE", "U+10CAF", "U+10CB0", "U+10CB1", "U+10CB2", "U+10CC0", "U+10CC1",
     "U+10CC2", "U+10CC3", "U+10CC4", "U+10CC5", "U+10CC6", "U+10CC7", "U+10CC8", "U+10CC9",
     "U+10CCA", "U+10CCB", "U+10CCC", "U+10CCD", "U+10CCE", "U+10CCF", "U+10CD0", "U+10CD1",
     "U+10CD2", "U+10CD3", "U+10CD4", "U+10CD5", "U+10CD6", "U+10CD7", "U+10CD8", "U+10CD9",
     "U+10CDA", "U+10CDB", "U+10CDC", "U+10CDD", "U+10CDE", "U+10CDF", "U+10CE0", "U+10CE1",
     "U+10CE2", "U+10CE3", "U+10CE4", "U+10CE5", "U+10CE6", "U+10CE7", "U+10CE8", "U+10CE9",
     "U+10CEA", "U+10CEB", "U+10CEC", "U+10CED", "U+10CEE", "U+10CEF", "U+10CF0", "U+10CF1",
     "U+10CF2", "U+118A0", "U+118A1", "U+118A2", "U+118A3", "U+118A4", "U+118A5", "U+118A6",
     "U+118A7", "U+118A8", "U+118A9", "U+118AA", "U+118AB", "U+118AC", "U+118AD", "U+118AE",
     "U+118AF", "U+118B0", "U+118B1", "U+118B2", "U+118B3", "U+118B4", "U+118B5", "U+118B6",
     "U+118B7", "U+118B8", "U+118B9", "U+118BA", "U+118BB", "U+118BC", "U+118BD", "U+118BE",
     "U+118BF", "U+118C0", "U+118C1", "U+118C2", "U+118C3", "U+118C4", "U+118C5", "U+118C6",
     "U+118C7", "U+118C8", "U+118C9", "U+118CA", "U+118CB", "U+118CC", "U+118CD", "U+118CE",
     "U+118CF", "U+118D0", "U+118D1", "U+118D2", "U+118D3", "U+118D4", "U+118D5", "U+118D6",
     "U+118D7", "U+118D8", "U+118D9", "U+118DA", "U+118DB", "U+118DC", "U+118DD", "U+118DE",
     "U+118DF", "U+16E40", "U+16E41", "U+16E42", "U+16E43", "U+16E44", "U+16E45", "U+16E46",
     "U+16E47", "U+16E48", "U+16E49", "U+16E4A", "U+16E4B", "U+16E4C", "U+16E4D", "U+16E4E",
     "U+16E4F", "U+16E50", "U+16E51", "U+16E52", "U+16E53", "U+16E54", "U+16E55", "U+16E56",
     "U+16E57", "U+16E58", "U+16E59", "U+16E5A", "U+16E5B", "U+16E5C", "U+16E5D", "U+16E5E",
     "U+16E5F", "U+16E60", "U+16E61", "U+16E62", "U+16E63", "U+16E64", "U+16E65", "U+16E66",
     "U+16E67", "U+16E68", "U+16E69", "U+16E6A", "U+16E6B", "U+16E6C", "U+16E6D", "U+16E6E",
     "U+16E6F", "U+16E70", "U+16E71", "U+16E72", "U+16E73", "U+16E74", "U+16E75", "U+16E76",
     "U+16E77", "U+16E78", "U+16E79", "U+16E7A", "U+16E7B", "U+16E7C", "U+16E7D", "U+16E7E",
     "U+16E7F", "U+1D400", "U+1D401", "U+1D402", "U+1D403", "U+1D404", "U+1D405", "U+1D406",
     "U+1D407", "U+1D408", "U+1D409", "U+1D40A", "U+1D40B", "U+1D40C", "U+1D40D", "U+1D40E",
     "U+1D40F", "U+1D410", "U+1D411", "U+1D412", "U+1D413", "U+1D414", "U+1D415", "U+1D416",
     "U+1D417", "U+1D418", "U+1D419", "U+1D41A", "U+1D41B", "U+1D41C", "U+1D41D", "U+1D41E",
     "U+1D41F", "U+1D420", "U+1D421", "U+1D422", "U+1D423", "U+1D424", "U+1D425", "U+1D426",
     "U+1D427", "U+1D428", "U+1D429", "U+1D42A", "U+1D42B", "U+1D42C", "U+1D42D", "U+1D42E",
     "U+1D42F", "U+1D430", "U+1D431", "U+1D432", "U+1D433", "U+1D434", "U+1D435", "U+1D436",
     "U+1D437", "U+1D438", "U+1D439", "U+1D43A", "U+1D43B", "U+1D43C", "U+1D43D", "U+1D43E",
     "U+1D43F", "U+1D440", "U+1D441", "U+1D442", "U+1D443", "U+1D444", "U+1D445", "U+1D446",
     "U+1D447", "U+1D448", "U+1D449", "U+1D44A", "U+1D44B", "U+1D44C", "U+1D44D", "U+1D44E",
     "U+1D44F", "U+1D450", "U+1D451", "U+1D452", "U+1D453", "U+1D454", "U+1D456", "U+1D457",
     "U+1D458", "U+1D459", "U+1D45A", "U+1D45B", "U+1D45C", "U+1D45D", "U+1D45E", "U+1D45F",
     "U+1D460", "U+1D461", "U+1D462", "U+1D463", "U+1D464", "U+1D465", "U+1D466", "U+1D467",
     "U+1D468", "U+1D469", "U+1D46A", "U+1D46B", "U+1D46C", "U+1D46D", "U+1D46E", "U+1D46F",
     "U+1D470", "U+1D471", "U+1D472", "U+1D473", "U+1D474", "U+1D475", "U+1D476", "U+1D477",
     "U+1D478", "U+1D479", "U+1D47A", "U+1D47B", "U+1D47C", "U+1D47D", "U+1D47E", "U+1D47F",
     "U+1D480", "U+1D481", "U+1D482", "U+1D483", "U+1D484", "U+1D485", "U+1D486", "U+1D487",
     "U+1D488", "U+1D489", "U+1D48A", "U+1D48B", "U+1D48C", "U+1D48D", "U+1D48E", "U+1D48F",
     "U+1D490", "U+1D491", "U+1D492", "U+1D493", "U+1D494", "U+1D495", "U+1D496", "U+1D497",
     "U+1D498", "U+1D499", "U+1D49A", "U+1D49B", "U+1D49C", "U+1D49E", "U+1D49F", "U+1D4A2",
     "U+1D4A5", "U+1D4A6", "U+1D4A9", "U+1D4AA", "U+1D4AB", "U+1D4AC", "U+1D4AE", "U+1D4AF",
     "U+1D4B0", "U+1D4B1", "U+1D4B2", "U+1D4B3", "U+1D4B4", "U+1D4B5", "U+1D4B6", "U+1D4B7",
     "U+1D4B8", "U+1D4B9", "U+1D4BB", "U+1D4BD", "U+1D4BE", "U+1D4BF", "U+1D4C0", "U+1D4C1",
     "U+1D4C2", "U+1D4C3", "U+1D4C5", "U+1D4C6", "U+1D4C7", "U+1D4C8", "U+1D4C9", "U+1D4CA",
     "U+1D4CB", "U+1D4CC", "U+1D4CD", "U+1D4CE", "U+1D4CF", "U+1D4D0", "U+1D4D1", "U+1D4D2",
     "U+1D4D3", "U+1D4D4", "U+1D4D5", "U+1D4D6", "U+1D4D7", "U+1D4D8", "U+1D4D9", "U+1D4DA",
     "U+1D4DB", "U+1D4DC", "U+1D4DD", "U+1D4DE", "U+1D4DF", "U+1D4E0", "U+1D4E1", "U+1D4E2",
     "U+1D4E3", "U+1D4E4", "U+1D4E5", "U+1D4E6", "U+1D4E7", "U+1D4E8", "U+1D4E9", "U+1D4EA",
     "U+1D4EB", "U+1D4EC", "U+1D4ED", "U+1D4EE", "U+1D4EF", "U+1D4F0", "U+1D4F1", "U+1D4F2",
     "U+1D4F3", "U+1D4F4", "U+1D4F5", "U+1D4F6", "U+1D4F7", "U+1D4F8", "U+1D4F9", "U+1D4FA",
     "U+1D4FB", "U+1D4FC", "U+1D4FD", "U+1D4FE", "U+1D4FF", "U+1D500", "U+1D501", "U+1D502",
     "U+1D503", "U+1D504", "U+1D505", "U+1D507", "U+1D508", "U+1D509", "U+1D50A", "U+1D50D",
     "U+1D50E", "U+1D50F", "U+1D510", "U+1D511", "U+1D512", "U+1D513", "U+1D514", "U+1D516",
     "U+1D517", "U+1D518", "U+1D519", "U+1D51A", "U+1D51B", "U+1D51C", "U+1D51E", "U+1D51F",
     "U+1D520", "U+1D521", "U+1D522", "U+1D523", "U+1D524", "U+1D525", "U+1D526", "U+1D527",
     "U+1D528", "U+1D529", "U+1D52A", "U+1D52B", "U+1D52C", "U+1D52D", "U+1D52E", "U+1D52F",
     "U+1D530", "U+1D531", "U+1D532", "U+1D533", "U+1D534", "U+1D535", "U+1D536", "U+1D537",
     "U+1D538", "U+1D539", "U+1D53B", "U+1D53C", "U+1D53D", "U+1D53E", "U+1D540", "U+1D541",
     "U+1D542", "U+1D543", "U+1D544", "U+1D546", "U+1D54A", "U+1D54B", "U+1D54C", "U+1D54D",
     "U+1D54E", "U+1D54F", "U+1D550", "U+1D552", "U+1D553", "U+1D554", "U+1D555", "U+1D556",
     "U+1D557", "U+1D558", "U+1D559", "U+1D55A", "U+1D55B", "U+1D55C", "U+1D55D", "U+1D55E",
     "U+1D55F", "U+1D560", "U+1D561", "U+1D562", "U+1D563", "U+1D564", "U+1D565", "U+1D566",
     "U+1D567", "U+1D568", "U+1D569", "U+1D56A", "U+1D56B", "U+1D56C", "U+1D56D", "U+1D56E",
     "U+1D56F", "U+1D570", "U+1D571", "U+1D572", "U+1D573", "U+1D574", "U+1D575", "U+1D576",
     "U+1D577", "U+1D578", "U+1D579", "U+1D57A", "U+1D57B", "U+1D57C", "U+1D57D", "U+1D57E",
     "U+1D57F", "U+1D580", "U+1D581", "U+1D582", "U+1D583", "U+1D584", "U+1D585", "U+1D586",
     "U+1D587", "U+1D588", "U+1D589", "U+1D58A", "U+1D58B", "U+1D58C", "U+1D58D", "U+1D58E",
     "U+1D58F", "U+1D590", "U+1D591", "U+1D592", "U+1D593", "U+1D594", "U+1D595", "U+1D596",
     "U+1D597", "U+1D598", "U+1D599", "U+1D59A", "U+1D59B", "U+1D59C", "U+1D59D", "U+1D59E",
     "U+1D59F", "U+1D5A0", "U+1D5A1", "U+1D5A2", "U+1D5A3", "U+1D5A4", "U+1D5A5", "U+1D5A6",
     "U+1D5A7", "U+1D5A8", "U+1D5A9", "U+1D5AA", "U+1D5AB", "U+1D5AC", "U+1D5AD", "U+1D5AE",
     "U+1D5AF", "U+1D5B0", "U+1D5B1", "U+1D5B2", "U+1D5B3", "U+1D5B4", "U+1D5B5", "U+1D5B6",
     "U+1D5B7", "U+1D5B8", "U+1D5B9", "U+1D5BA", "U+1D5BB", "U+1D5BC", "U+1D5BD", "U+1D5BE",
     "U+1D5BF", "U+1D5C0", "U+1D5C1", "U+1D5C2", "U+1D5C3", "U+1D5C4", "U+1D5C5", "U+1D5C6",
     "U+1D5C7", "U+1D5C8", "U+1D5C9", "U+1D5CA", "U+1D5CB", "U+1D5CC", "U+1D5CD", "U+1D5CE",
     "U+1D5CF", "U+1D5D0", "U+1D5D1", "U+1D5D2", "U+1D5D3", "U+1D5D4", "U+1D5D5", "U+1D5D6",
     "U+1D5D7", "U+1D5D8", "U+1D5D9", "U+1D5DA", "U+1D5DB", "U+1D5DC", "U+1D5DD", "U+1D5DE",
     "U+1D5DF", "U+1D5E0", "U+1D5E1", "U+1D5E2", "U+1D5E3", "U+1D5E4", "U+1D5E5", "U+1D5E6",
     "U+1D5E7", "U+1D5E8", "U+1D5E9", "U+1D5EA", "U+1D5EB", "U+1D5EC", "U+1D5ED", "U+1D5EE",
     "U+1D5EF", "U+1D5F0", "U+1D5F1", "U+1D5F2", "U+1D5F3", "U+1D5F4", "U+1D5F5", "U+1D5F6",
     "U+1D5F7", "U+1D5F8", "U+1D5F9", "U+1D5FA", "U+1D5FB", "U+1D5FC", "U+1D5FD", "U+1D5FE",
     "U+1D5FF", "U+1D600", "U+1D601", "U+1D602", "U+1D603", "U+1D604", "U+1D605", "U+1D606",
     "U+1D607", "U+1D608", "U+1D609", "U+1D60A", "U+1D60B", "U+1D60C", "U+1D60D", "U+1D60E",
     "U+1D60F", "U+1D610", "U+1D611", "U+1D612", "U+1D613", "U+1D614", "U+1D615", "U+1D616",
     "U+1D617", "U+1D618", "U+1D619", "U+1D61A", "U+1D61B", "U+1D61C", "U+1D61D", "U+1D61E",
     "U+1D61F", "U+1D620", "U+1D621", "U+1D622", "U+1D623", "U+1D624", "U+1D625", "U+1D626",
     "U+1D627", "U+1D628", "U+1D629", "U+1D62A", "U+1D62B", "U+1D62C", "U+1D62D", "U+1D62E",
     "U+1D62F", "U+1D630", "U+1D631", "U+1D632", "U+1D633", "U+1D634", "U+1D635", "U+1D636",
     "U+1D637", "U+1D638", "U+1D639", "U+1D63A", "U+1D63B", "U+1D63C", "U+1D63D", "U+1D63E",
     "U+1D63F", "U+1D640", "U+1D641", "U+1D642", "U+1D643", "U+1D644", "U+1D645", "U+1D646",
     "U+1D647", "U+1D648", "U+1D649", "U+1D64A", "U+1D64B", "U+1D64C", "U+1D64D", "U+1D64E",
     "U+1D64F", "U+1D650", "U+1D651", "U+1D652", "U+1D653", "U+1D654", "U+1D655", "U+1D656",
     "U+1D657", "U+1D658", "U+1D659", "U+1D65A", "U+1D65B", "U+1D65C", "U+1D65D", "U+1D65E",
     "U+1D65F", "U+1D660", "U+1D661", "U+1D662", "U+1D663", "U+1D664", "U+1D665", "U+1D666",
     "U+1D667", "U+1D668", "U+1D669", "U+1D66A", "U+1D66B", "U+1D66C", "U+1D66D", "U+1D66E",
     "U+1D66F", "U+1D670", "U+1D671", "U+1D672", "U+1D673", "U+1D674", "U+1D675", "U+1D676",
     "U+1D677", "U+1D678", "U+1D679", "U+1D67A", "U+1D67B", "U+1D67C", "U+1D67D", "U+1D67E",
     "U+1D67F", "U+1D680", "U+1D681", "U+1D682", "U+1D683", "U+1D684", "U+1D685", "U+1D686",
     "U+1D687", "U+1D688", "U+1D689", "U+1D68A", "U+1D68B", "U+1D68C", "U+1D68D", "U+1D68E",
     "U+1D68F", "U+1D690", "U+1D691", "U+1D692", "U+1D693", "U+1D694", "U+1D695", "U+1D696",
     "U+1D697", "U+1D698", "U+1D699", "U+1D69A", "U+1D69B", "U+1D69C", "U+1D69D", "U+1D69E",
     "U+1D69F", "U+1D6A0", "U+1D6A1", "U+1D6A2", "U+1D6A3", "U+1D6A4", "U+1D6A5", "U+1D6A8",
     "U+1D6A9", "U+1D6AA", "U+1D6AB", "U+1D6AC", "U+1D6AD", "U+1D6AE", "U+1D6AF", "U+1D6B0",
     "U+1D6B1", "U+1D6B2", "U+1D6B3", "U+1D6B4", "U+1D6B5", "U+1D6B6", "U+1D6B7", "U+1D6B8",
     "U+1D6B9", "U+1D6BA", "U+1D6BB", "U+1D6BC", "U+1D6BD", "U+1D6BE", "U+1D6BF", "U+1D6C0",
     "U+1D6C2", "U+1D6C3", "U+1D6C4", "U+1D6C5", "U+1D6C6", "U+1D6C7", "U+1D6C8", "U+1D6C9",
     "U+1D6CA", "U+1D6CB", "U+1D6CC", "U+1D6CD", "U+1D6CE", "U+1D6CF", "U+1D6D0", "U+1D6D1",
     "U+1D6D2", "U+1D6D3", "U+1D6D4", "U+1D6D5", "U+1D6D6", "U+1D6D7", "U+1D6D8", "U+1D6D9",
     "U+1D6DA", "U+1D6DC", "U+1D6DD", "U+1D6DE", "U+1D6DF", "U+1D6E0", "U+1D6E1", "U+1D6E2",
     "U+1D6E3", "U+1D6E4", "U+1D6E5", "U+1D6E6", "U+1D6E7", "U+1D6E8", "U+1D6E9", "U+1D6EA",
     "U+1D6EB", "U+1D6EC", "U+1D6ED", "U+1D6EE", "U+1D6EF", "U+1D6F0", "U+1D6F1", "U+1D6F2",
     "U+1D6F3", "U+1D6F4", "U+1D6F5", "U+1D6F6", "U+1D6F7", "U+1D6F8", "U+1D6F9", "U+1D6FA",
     "U+1D6FC", "U+1D6FD", "U+1D6FE", "U+1D6FF", "U+1D700", "U+1D701", "U+1D702", "U+1D703",
     "U+1D704", "U+1D705", "U+1D706", "U+1D707", "U+1D708", "U+1D709", "U+1D70A", "U+1D70B",
     "U+1D70C", "U+1D70D", "U+1D70E", "U+1D70F", "U+1D710", "U+1D711", "U+1D712", "U+1D713",
     "U+1D714", "U+1D716", "U+1D717", "U+1D718", "U+1D719", "U+1D71A", "U+1D71B", "U+1D71C",
     "U+1D71D", "U+1D71E", "U+1D71F", "U+1D720", "U+1D721", "U+1D722", "U+1D723", "U+1D724",
     "U+1D725", "U+1D726", "U+1D727", "U+1D728", "U+1D729", "U+1D72A", "U+1D72B", "U+1D72C",
     "U+1D72D", "U+1D72E", "U+1D72F", "U+1D730", "U+1D731", "U+1D732", "U+1D733", "U+1D734",
     "U+1D736", "U+1D737", "U+1D738", "U+1D739", "U+1D73A", "U+1D73B", "U+1D73C", "U+1D73D",
     "U+1D73E", "U+1D73F", "U+1D740", "U+1D741", "U+1D742", "U+1D743", "U+1D744", "U+1D745",
     "U+1D746", "U+1D747", "U+1D748", "U+1D749", "U+1D74A", "U+1D74B", "U+1D74C", "U+1D74D",
     "U+1D74E", "U+1D750", "U+1D751", "U+1D752", "U+1D753", "U+1D754", "U+1D755", "U+1D756",
     "U+1D757", "U+1D758", "U+1D759", "U+1D75A", "U+1D75B", "U+1D75C", "U+1D75D", "U+1D75E",
     "U+1D75F", "U+1D760", "U+1D761", "U+1D762", "U+1D763", "U+1D764", "U+1D765", "U+1D766",
     "U+1D767", "U+1D768", "U+1D769", "U+1D76A", "U+1D76B", "U+1D76C", "U+1D76D", "U+1D76E",
     "U+1D770", "U+1D771", "U+1D772", "U+1D773", "U+1D774", "U+1D775", "U+1D776", "U+1D777",
     "U+1D778", "U+1D779", "U+1D77A", "U+1D77B", "U+1D77C", "U+1D77D", "U+1D77E", "U+1D77F",
     "U+1D780", "U+1D781", "U+1D782", "U+1D783", "U+1D784", "U+1D785", "U+1D786", "U+1D787",
     "U+1D788", "U+1D78A", "U+1D78B", "U+1D78C", "U+1D78D", "U+1D78E", "U+1D78F", "U+1D790",
     "U+1D791", "U+1D792", "U+1D793", "U+1D794", "U+1D795", "U+1D796", "U+1D797", "U+1D798",
     "U+1D799", "U+1D79A", "U+1D79B", "U+1D79C", "U+1D79D", "U+1D79E", "U+1D79F", "U+1D7A0",
     "U+1D7A1", "U+1D7A2", "U+1D7A3", "U+1D7A4", "U+1D7A5", "U+1D7A6", "U+1D7A7", "U+1D7A8",
     "U+1D7AA", "U+1D7AB", "U+1D7AC", "U+1D7AD", "U+1D7AE", "U+1D7AF", "U+1D7B0", "U+1D7B1",
     "U+1D7B2", "U+1D7B3", "U+1D7B4", "U+1D7B5", "U+1D7B6", "U+1D7B7", "U+1D7B8", "U+1D7B9",
     "U+1D7BA", "U+1D7BB", "U+1D7BC", "U+1D7BD", "U+1D7BE", "U+1D7BF", "U+1D7C0", "U+1D7C1",
     "U+1D7C2", "U+1D7C4", "U+1D7C5", "U+1D7C6", "U+1D7C7", "U+1D7C8", "U+1D7C9", "U+1D7CA",
     "U+1D7CB", "U+1DF00", "U+1DF01", "U+1DF02", "U+1DF03", "U+1DF04", "U+1DF05", "U+1DF06",
     "U+1DF07", "U+1DF08", "U+1DF09", "U+1DF0B", "U+1DF0C", "U+1DF0D", "U+1DF0E", "U+1DF0F",
     "U+1DF10", "U+1DF11", "U+1DF12", "U+1DF13", "U+1DF14", "U+1DF15", "U+1DF16", "U+1DF17",
     "U+1DF18", "U+1DF19", "U+1DF1A", "U+1DF1B", "U+1DF1C", "U+1DF1D", "U+1DF1E", "U+1E900",
     "U+1E901", "U+1E902", "U+1E903", "U+1E904", "U+1E905", "U+1E906", "U+1E907", "U+1E908",
     "U+1E909", "U+1E90A", "U+1E90B", "U+1E90C", "U+1E90D", "U+1E90E", "U+1E90F", "U+1E910",
     "U+1E911", "U+1E912", "U+1E913", "U+1E914", "U+1E915", "U+1E916", "U+1E917", "U+1E918",
     "U+1E919", "U+1E91A", "U+1E91B", "U+1E91C", "U+1E91D", "U+1E91E", "U+1E91F", "U+1E920",
     "U+1E921", "U+1E922", "U+1E923", "U+1E924", "U+1E925", "U+1E926", "U+1E927", "U+1E928",
     "U+1E929", "U+1E92A", "U+1E92B", "U+1E92C", "U+1E92D", "U+1E92E", "U+1E92F", "U+1E930",
     "U+1E931", "U+1E932", "U+1E933", "U+1E934", "U+1E935", "U+1E936", "U+1E937", "U+1E938",
     "U+1E939", "U+1E93A", "U+1E93B", "U+1E93C", "U+1E93D", "U+1E93E", "U+1E93F", "U+1E940",
     "U+1E941", "U+1E942", "U+1E943", "U+1F130", "U+1F131", "U+1F132", "U+1F133", "U+1F134",
     "U+1F135", "U+1F136", "U+1F137", "U+1F138", "U+1F139", "U+1F13A", "U+1F13B", "U+1F13C",
     "U+1F13D", "U+1F13E", "U+1F13F", "U+1F140", "U+1F141", "U+1F142", "U+1F143", "U+1F144",
     "U+1F145", "U+1F146", "U+1F147", "U+1F148", "U+1F149", "U+1F150", "U+1F151", "U+1F152",
     "U+1F153", "U+1F154", "U+1F155", "U+1F156", "U+1F157", "U+1F158", "U+1F159", "U+1F15A",
     "U+1F15B", "U+1F15C", "U+1F15D", "U+1F15E", "U+1F15F", "U+1F160", "U+1F161", "U+1F162",
     "U+1F163", "U+1F164", "U+1F165", "U+1F166", "U+1F167", "U+1F168", "U+1F169", "U+1F170",
     "U+1F171", "U+1F172", "U+1F173", "U+1F174", "U+1F175", "U+1F176", "U+1F177", "U+1F178",
     "U+1F179", "U+1F17A", "U+1F17B", "U+1F17C", "U+1F17D", "U+1F17E", "U+1F17F", "U+1F180",
     "U+1F181", "U+1F182", "U+1F183", "U+1F184", "U+1F185", "U+1F186", "U+1F187", "U+1F188",
     "U+1F189"}

\* the capital sigma at s[i] ends a word: going left over the skipped
\* characters there is a cased letter, going right there is none
FinalSigma(s, i) ==
    LET left == {j \in 1..(i - 1) : s[j] \notin CaseIgnorable}
        right == {j \in (i + 1)..Len(s) : s[j] \notin CaseIgnorable}
    IN  /\ left # {}
        /\ s[CHOOSE j \in left : \A k \in left : k <= j] \in Cased
        /\ right = {} \/ s[CHOOSE j \in right : \A k \in right : j <= k] \notin Cased

\* what str.lower() puts for the character at s[i]: the capital sigma has
\* two lower-case letters, the capital I with a dot above becomes two
\* characters
LowerAt(s, i) ==
    IF s[i] = "Σ" THEN <<IF FinalSigma(s, i) THEN "ς" ELSE "σ">>
    ELSE IF s[i] = "U+0130" THEN <<"i", "U+0307">>
    ELSE <<LowerChar(s[i])>>

RECURSIVE LowerFrom(_, _)
LowerFrom(s, i) == IF i > Len(s) THEN <<>> ELSE LowerAt(s, i) \o LowerFrom(s, i + 1)

\* str.lower()
Lower(s) == LowerFrom(s, 1)

\* `sub in s` for strings
Contains(s, sub) ==
    \E i \in 0..(Len(s) - Len(sub)) :
        \A j \in 1..Len(sub) : s[i + j] = sub[j]

(***************************************************************************)
(* HealthScoreCalculator.calculate_health_score                            *)
(***************************************************************************)
Min(a, b) == IF a < b THEN a ELSE b
Max(a, b) == IF a > b THEN a ELSE b

\* A float of a NutritionInfo field is a tuple: <<v>> is exactly v units
\* (0.01 g, 0.1 kcal for the energy); <<v, "more">> lies strictly between v
\* and v + 1 units and <<v, "less">> strictly between v - 1 and v (a number
\* with digits below the unit, cut towards 0); <<0, "inf">>, <<0, "-inf">>
\* and <<0, "nan">> are the floats of these names.  None is the empty tuple.
Inexact(x) == Len(x) = 2 /\ x[2] = "more"

\* Python truthiness of an Optional number: None and 0 are falsy
Truthy(x) == x # None /\ (x[1] # 0 \/ Len(x) = 2)

\* `x > threshold` for a float: nan is greater than nothing
Above(x, threshold) ==
    CASE Len(x) = 1 -> x[1] > threshold
      [] x[2] = "more" -> x[1] >= threshold
      [] x[2] = "less" -> x[1] > threshold
      [] x[2] \in {"inf", "huge"} -> TRUE
      [] OTHER -> FALSE

\* the test of one term: `nutrition.x_100g and nutrition.x_100g > threshold`
Passes(x, threshold) == Truthy(x) /\ Above(x, threshold)

\* min(cap, (x - threshold) * rate) in centipoints, of the units of x; the
\* part of an inexact value below its unit is in FloatDeviations
Amount(x, threshold, rate, cap) ==
    IF Len(x) = 2 /\ x[2] \in {"inf", "huge"} THEN cap
    ELSE Min(cap, (x[1] - threshold) * rate)

\* one penalty or bonus of the `if nutrition:` block, unsigned
Term(x, threshold, rate, cap) ==
    IF Passes(x, threshold) THEN Amount(x, threshold, rate, cap) ELSE 0

\* grade_penalties.get(nutriscore_grade.lower(), 0), in centipoints
grade_penalties(g) ==
    CASE g = <<"a">> -> 0
      [] g = <<"b">> -> -500
      [] g = <<"c">> -> -1500
      [] g = <<"d">> -> -2500
      [] g = <<"e">> -> -3500
      [] OTHER -> 0

\* nova_penalties.get(nova_group, 0), in centipoints
nova_penalties(n) ==
    CASE n = 1 -> 0
      [] n = 2 -> -500
      [] n = 3 -> -1500
      [] n = 4 -> -2500
      [] OTHER -> 0

\* a version of the `if nutrition:` block whose salt test is an `if`, not an
\* `elif`: the salt penalty is applied whatever the sodium test decided
NutritionTerms_SodiumAndSalt(nutrition) ==
    IF nutrition = None THEN 0
    ELSE LET n == nutrition[1] IN
      - Term(n.energy, 3000, 1, 3000)
      - Term(n.sugars, 1000, 2, 2500)
      - Term(n.sodium, 100, 15, 2000)
      - Term(n.salt, 250, 6, 2000)
      - Term(n.saturated_fat, 500, 2, 2000)
      + Term(n.fiber, 300, 3, 1500)
      + Term(n.proteins, 1000, 1, 1000)

\* a version of the `if nutrition:` block that adds the sugar term (`+=` for
\* the `-=` of line 95)
NutritionTerms_SugarAdded(nutrition) ==
    IF nutrition = None THEN 0
    ELSE LET n == nutrition[1] IN
      - Term(n.energy, 3000, 1, 3000)
      + Term(n.sugars, 1000, 2, 2500)
      - (IF Passes(n.sodium, 100) THEN Term(n.sodium, 100, 15, 2000)
         ELSE Term(n.salt, 250, 6, 2000))
      - Term(n.saturated_fat, 500, 2, 2000)
      + Term(n.fiber, 300, 3, 1500)
      + Term(n.proteins, 1000, 1, 1000)

\* the `if nutrition:` block (lines 89-113): the sum of the nutrient
\* penalties and bonuses; the salt is looked at only when the sodium test fails
NutritionTerms(nutrition) ==
    IF nutrition = None THEN 0
    ELSE LET n == nutrition[1] IN
      - Term(n.energy, 3000, 1, 3000)
      - Term(n.sugars, 1000, 2, 2500)
      - (IF Passes(n.sodium, 100) THEN Term(n.sodium, 100, 15, 2000)
         ELSE Term(n.salt, 250, 6, 2000))
      - Term(n.saturated_fat, 500, 2, 2000)
      + Term(n.fiber, 300, 3, 1500)
      + Term(n.proteins, 1000, 1, 1000)

\* a version of lines 86-127 that looks the grade up without .lower()
RawScore_GradeCaseSensitive(n, grade, nova, additives) ==
    10000
    + NutritionTerms(n)
    + (IF grade # None /\ grade[1] # <<>>
         THEN grade_penalties(grade[1]) ELSE 0)
    + (IF Truthy(nova) THEN nova_penalties(nova[1]) ELSE 0)
    - (IF additives # None /\ additives[1] # <<>>
         THEN Min(1500, Len(additives[1]) * 2 * 100) ELSE 0)

\* the score before the clamp (lines 86-127)
RawScore(n, grade, nova, additives) ==
    10000
    + NutritionTerms(n)
    + (IF grade # None /\ grade[1] # <<>>
         THEN grade_penalties(Lower(grade[1])) ELSE 0)
    + (IF Truthy(nova) THEN nova_penalties(nova[1]) ELSE 0)
    - (IF additives # None /\ additives[1] # <<>>
         THEN Min(1500, Len(additives[1]) * 2 * 100) ELSE 0)

\* a version of line 130 that does not bound the score
Clamp_Unbounded(s) == s

\* score = max(0, min(100, score))
Clamp(s) == Max(0, Min(10000, s))

\* One term of the `if nutrition:` block is computed without rounding error
\* when it is not applied, when it is replaced by its cap (an int), or when
\* its value is a multiple of 0.25 g (2.5 kcal for the energy, which is
\* divided by 10): such values and their products are binary fractions.
TermExact(x, threshold, rate, cap) ==
    \/ ~Passes(x, threshold)
    \/ Len(x) = 2 /\ x[2] \in {"inf", "huge"}
    \/ rate * (x[1] - threshold) > cap
    \/ Inexact(x) /\ rate * (x[1] - threshold) = cap
    \/ Len(x) = 1 /\ x[1] % 25 = 0

\* whether the float `score` of lines 86-127 is the exact decimal value
FloatExact(nutrition) ==
    \/ nutrition = None
    \/ LET n == nutrition[1] IN
        /\ TermExact(n.energy, 3000, 1, 3000)
        /\ TermExact(n.sugars, 1000, 2, 2500)
        /\ IF Passes(n.sodium, 100)
             THEN TermExact(n.sodium, 100, 15, 2000)
             ELSE TermExact(n.salt, 250, 6, 2000)
        /\ TermExact(n.saturated_fat, 500, 2, 2000)
        /\ TermExact(n.fiber, 300, 3, 1500)
        /\ TermExact(n.proteins, 1000, 1, 1000)

\* What the part of an inexact value below its unit can add to its term: the
\* term lies strictly between Amount and Amount + Span, or is the cap.
Span(x, threshold, rate, cap) ==
    IF Passes(x, threshold) /\ Inexact(x) /\ Amount(x, threshold, rate, cap) < cap
      THEN Min(rate, cap - Amount(x, threshold, rate, cap))
      ELSE 0

\* the sum of the spans of the penalties, and of the bonuses
PenaltySpan(nutrition) ==
    IF nutrition = None THEN 0
    ELSE LET n == nutrition[1] IN
        Span(n.energy, 3000, 1, 3000) + Span(n.sugars, 1000, 2, 2500)
      + (IF Passes(n.sodium, 100) THEN Span(n.sodium, 100, 15, 2000)
         ELSE Span(n.salt, 250, 6, 2000))
      + Span(n.saturated_fat, 500, 2, 2000)

BonusSpan(nutrition) ==
    IF nutrition = None THEN 0
    ELSE Span(nutrition[1].fiber, 300, 3, 1500) + Span(nutrition[1].proteins, 1000, 1, 1000)

\* Where the float `score` of lines 86-127 lies relative to RawScore, in
\* thirds of a centipoint: 3 * d is RawScore + d exactly, 3 * d - 1 and
\* 3 * d + 1 lie just below and just above it (3 * d + 1 and 3 * d + 2 both
\* stand for a value between RawScore + d and RawScore + d + 1).
\* With exact inputs it is 0 when every term is computed exactly; otherwise
\* the rounding errors of the terms decide, which fixed point does not
\* represent, and each side is possible; a value that is no binary fraction
\* (no multiple of 0.25) is never met exactly.  With inexact inputs the
\* exact sum lies between RawScore - PenaltySpan and RawScore + BonusSpan;
\* the float additions round it, so that the float can be either end itself
\* (100 + 4.999999999999998 is 105.0) or lie just beyond it.
FloatDeviations(n, grade, nova, additives) ==
    IF PenaltySpan(n) = 0 /\ BonusSpan(n) = 0
      THEN IF FloatExact(n) THEN {0}
           ELSE IF Clamp(RawScore(n, grade, nova, additives)) % 25 = 0 THEN {-1, 0, 1}
           ELSE {-1, 1}
      ELSE (-3 * PenaltySpan(n) - 1) .. (3 * BonusSpan(n) + 1)

\* the centipoints and the side of a deviation
By(fp) == (fp + 1) \div 3
Side(fp) == fp - 3 * By(fp)

\* `score >= bound` of lines 133-139 for the float on side fp of s
AtLeast(s, fp, bound) == s > bound \/ (s = bound /\ fp >= 0)

\* the if/elif chain of lines 133-142, on a score in centipoints
RatingOf(s, fp) ==
    IF AtLeast(s, fp, 8000) THEN "Excellent"
    ELSE IF AtLeast(s, fp, 6500) THEN "Good"
    ELSE IF AtLeast(s, fp, 5000) THEN "Moderate"
    ELSE IF AtLeast(s, fp, 3500) THEN "Poor"
    ELSE "Very Poor"

\* round(score, 1): the tenth of a point nearest to the float.  On a tie of
\* the exact value (5 centipoints) the side of the float decides; a float
\* that is the tie exactly goes to the even tenth.
Round1(s, fp) ==
    LET q == s \div 10
        r == s % 10
    IN  IF r < 5 THEN 10 * q
        ELSE IF r > 5 THEN 10 * (q + 1)
        ELSE IF fp < 0 THEN 10 * q
        ELSE IF fp > 0 THEN 10 * (q + 1)
        ELSE IF q % 2 = 0 THEN 10 * q ELSE 10 * (q + 1)

\* the whole function: the rating is taken from the clamped score, the score
\* returned is that score rounded
calculate_health_score(n, grade, nova, additives, fp) ==
    LET score == Clamp(RawScore(n, grade, nova, additives) + By(fp))
    IN  [score |-> Round1(score, Side(fp)), rating |-> RatingOf(score, Side(fp))]

(***************************************************************************)
(* Inputs of the scoring specification                                     *)
(***************************************************************************)
\* 250, 500, 500.4 and 700 kcal
EnergyValues == {None, <<2500>>, <<5000>>, <<5004>>, <<7000>>}
SugarValues == {None, <<1250>>, <<4000>>}              \* 12.5 g and 40 g
SodiumValues == {None, <<50>>, <<103>>, <<300>>}       \* 0.5 g, 1.03 g and 3 g
SaltValues == {None, <<500>>}                          \* 5 g
SatFatValues == {None, <<1500>>}                       \* 15 g
FiberValues == {None, <<800>>}                         \* 8 g
ProteinValues == {None, <<2000>>}                      \* 20 g

\* fat_100g and carbohydrates_100g do not enter the score
NutritionInfos ==
    [energy : EnergyValues, fat : {None}, saturated_fat : SatFatValues,
     carbohydrates : {None}, sugars : SugarValues, fiber : FiberValues,
     proteins : ProteinValues, salt : SaltValues, sodium : SodiumValues]

Grades == {None} \cup {Some(<<c>>) : c \in {"a", "b", "c", "d", "e", "E", "z"}}
NovaGroups == {None} \cup {Some(k) : k \in 1..5}
AdditiveLists == {None} \cup {Some([i \in 1..k |-> "e330"]) : k \in 0..MaxAdditives}

ScoreInputs ==
    [nutrition : {None} \cup {Some(n) : n \in NutritionInfos},
     grade : Grades, nova : NovaGroups, additives : AdditiveLists]

NoInput == [nutrition |-> None, grade |-> None, nova |-> None, additives |-> None]


(***************************************************************************)
(* OpenFoodFactsService: products, upstream replies, search_products       *)
(***************************************************************************)
INDIA_BASE_URL == "https://in.openfoodfacts.org/api/v2"
BASE_URL == "https://world.openfoodfacts.org/api/v2"

\* the `indian_brands` list of search_products
indian_brands ==
    { <<"a","m","u","l">>,
      <<"b","r","i","t","a","n","n","i","a">>,
      <<"p","a","r","l","e">>,
      <<"h","a","l","d","i","r","a","m">>,
      <<"m","d","h">>,
      <<"e","v","e","r","e","s","t">>,
      <<"t","a","t","a">>,
      <<"n","e","s","t","l","e"," ","i","n","d","i","a">>,
      <<"i","t","c">>,
      <<"d","a","b","u","r">>,
      <<"p","a","t","a","n","j","a","l","i">> }

\* a version of line 190 that does not lower-case the brand
IsIndianBrand_CaseSensitive(brand) ==
    /\ brand # None
    /\ brand[1] # <<>>
    /\ \E b \in indian_brands : Contains(brand[1], b)

\* product.brand and any(brand in product.brand.lower() for brand in indian_brands)
IsIndianBrand(brand) ==
    /\ brand # None
    /\ brand[1] # <<>>
    /\ \E b \in indian_brands : Contains(Lower(brand[1]), b)

\* list[:n] of Python: a negative n counts from the end
Slice(list, n) ==
    LET k == IF n >= 0 THEN Min(n, Len(list)) ELSE Max(0, Len(list) + n)
    IN  SubSeq(list, 1, k)

\* a version of the first pass without line 192 (seen_products.add)
RECURSIVE FirstPass_NoSeenAdd(_, _, _, _)
FirstPass_NoSeenAdd(all_products, i, seen_products, filtered_products) ==
    IF i > Len(all_products)
      THEN [seen |-> seen_products, filtered |-> filtered_products]
      ELSE LET product == all_products[i]
           IN  IF product.id \notin seen_products /\ IsIndianBrand(product.brand)
                 THEN FirstPass_NoSeenAdd(all_products, i + 1, seen_products,
                                          Append(filtered_products, product))
                 ELSE FirstPass_NoSeenAdd(all_products, i + 1, seen_products,
                                          filtered_products)

\* "First pass: Indian brands" (lines 188-192), from position i on
RECURSIVE FirstPass(_, _, _, _)
FirstPass(all_products, i, seen_products, filtered_products) ==
    IF i > Len(all_products)
      THEN [seen |-> seen_products, filtered |-> filtered_products]
      ELSE LET product == all_products[i]
           IN  IF product.id \notin seen_products /\ IsIndianBrand(product.brand)
                 THEN FirstPass(all_products, i + 1,
                                seen_products \cup {product.id},
                                Append(filtered_products, product))
                 ELSE FirstPass(all_products, i + 1, seen_products,
                                filtered_products)

\* "Second pass: Other products" (lines 195-198), from position i on
RECURSIVE SecondPass(_, _, _, _, _)
SecondPass(all_products, i, seen_products, filtered_products, limit) ==
    IF i > Len(all_products)
      THEN filtered_products
      ELSE LET product == all_products[i]
           IN  IF product.id \notin seen_products
                  /\ Len(filtered_products) < limit
                 THEN SecondPass(all_products, i + 1,
                                 seen_products \cup {product.id},
                                 Append(filtered_products, product), limit)
                 ELSE SecondPass(all_products, i + 1, seen_products,
                                 filtered_products, limit)

\* lines 180-200: combine, remove duplicates, Indian brands first, cut
MergeAndRank(indian, global, limit) ==
    LET all_products == indian \o global
        first == FirstPass(all_products, 1, {}, <<>>)
        filtered == SecondPass(all_products, 1, first.seen, first.filtered, limit)
    IN  Slice(filtered, limit)

\* the table of _enhance_indian_query, in the order of the dict literal
indian_mappings ==
    << [term |-> <<"a","t","t","a">>,
        enhanced |-> <<"w","h","e","a","t"," ","f","l","o","u","r"," ","a","t","t","a">>],
       [term |-> <<"d","a","l">>,
        enhanced |-> <<"l","e","n","t","i","l","s"," ","d","a","l">>],
       [term |-> <<"c","h","a","w","a","l">>,
        enhanced |-> <<"r","i","c","e"," ","b","a","s","m","a","t","i">>],
       [term |-> <<"g","h","e","e">>,
        enhanced |-> <<"c","l","a","r","i","f","i","e","d"," ","b","u","t","t","e","r"," ","g","h","e","e">>],
       [term |-> <<"m","a","s","a","l","a">>,
        enhanced |-> <<"s","p","i","c","e"," ","m","a","s","a","l","a"," ","m","i","x">>],
       [term |-> <<"n","a","m","k","e","e","n">>,
        enhanced |-> <<"s","a","v","o","r","y"," ","s","n","a","c","k","s"," ","n","a","m","k","e","e","n">>],
       [term |-> <<"m","i","t","h","a","i">>,
        enhanced |-> <<"i","n","d","i","a","n"," ","s","w","e","e","t","s">>],
       [term |-> <<"c","h","a","i">>,
        enhanced |-> <<"t","e","a"," ","c","h","a","i">>],
       [term |-> <<"l","a","s","s","i">>,
        enhanced |-> <<"y","o","g","u","r","t"," ","d","r","i","n","k"," ","l","a","s","s","i">>],
       [term |-> <<"p","a","p","a","d">>,
        enhanced |-> <<"p","a","p","a","d","u","m"," ","c","r","i","s","p","y">>],
       [term |-> <<"p","i","c","k","l","e">>,
        enhanced |-> <<"i","n","d","i","a","n"," ","p","i","c","k","l","e"," ","a","c","h","a","r">>] >>

\* a version of the rewriting in which the last matching entry wins
enhance_indian_query_LastMatch(query) ==
    LET query_lower == Lower(query)
        hits == {k \in 1..Len(indian_mappings) :
                    Contains(query_lower, indian_mappings[k].term)}
    IN  IF hits = {} THEN query
        ELSE indian_mappings[CHOOSE k \in hits : \A m \in hits : k >= m].enhanced

\* _enhance_indian_query: the phrase of the first entry whose term is in the
\* lower-cased query, else the query itself
enhance_indian_query(query) ==
    LET query_lower == Lower(query)
        hits == {k \in 1..Len(indian_mappings) :
                    Contains(query_lower, indian_mappings[k].term)}
    IN  IF hits = {} THEN query
        ELSE indian_mappings[CHOOSE k \in hits : \A m \in hits : k <= m].enhanced

\* the request _search_with_url sends (lines 211-221)
SearchCall(base_url, query, limit) ==
    [url |-> base_url, path |-> "search",
     search_terms |-> enhance_indian_query(query), page_size |-> limit]

\* a version of _search_with_url without its `except Exception`: a failure
\* of the upstream request leaves the function as an exception
search_with_url_NoExcept(reply) ==
    IF reply.kind = "ok"
      THEN [raised |-> FALSE, products |-> reply.products]
      ELSE [raised |-> TRUE, products |-> <<>>]

\* a version of _search_with_url that returns the records parsed before
\* _parse_product raised
search_with_url_KeepsParsed(reply) ==
    IF reply.kind \in {"ok", "parse"}
      THEN [raised |-> FALSE, products |-> reply.products]
      ELSE [raised |-> FALSE, products |-> <<>>]

\* how _search_with_url ends for an upstream reply: it returns the parsed
\* products, or [] when anything in its try block raised (lines 222-233);
\* no exception leaves it
search_with_url(reply) ==
    IF reply.kind = "ok"
      THEN [raised |-> FALSE, products |-> reply.products]
      ELSE [raised |-> FALSE, products |-> <<>>]

\* the request _get_product_from_url sends (lines 287-292)
ProductCall(base_url, barcode) ==
    [url |-> base_url, path |-> "product", barcode |-> barcode]

\* a version of _get_product_from_url whose status test never succeeds
get_product_from_url_StatusNeverOne(reply) ==
    [raised |-> FALSE, product |-> None]

\* how _get_product_from_url ends: it returns the product when the reply
\* has status 1 and a product, None otherwise and when anything in its try
\* block raised (lines 286-301); no exception leaves it
get_product_from_url(reply) ==
    IF reply.kind = "ok"
      THEN [raised |-> FALSE, product |-> reply.product]
      ELSE [raised |-> FALSE, product |-> None]

(***************************************************************************)
(* Inputs of the service specification                                     *)
(***************************************************************************)
DefaultLimit == 20

\* FoodSearchRequest.limit: Optional[int], not validated
Limits == {None} \cup {Some(k) : k \in (-1..MaxLimit) \cup {DefaultLimit}}

\* "Dal Chawal": two terms of the synonym table occur in it
Queries == { <<"D","a","l"," ","C","h","a","w","a","l">> }

Barcodes == { "8901030865278", "invalid_barcode" }

\* FoodProduct, reduced to the fields search and lookup read
Amul == [id |-> "1", brand |-> Some(<<"A","m","u","l">>)]
Kraft == [id |-> "1", brand |-> Some(<<"K","r","a","f","t">>)]
NoBrand == [id |-> "2", brand |-> None]
Tata == [id |-> "3", brand |-> Some(<<"T","A","T","A">>)]
Products == {Amul, Kraft, NoBrand, Tata}

RECURSIVE SeqsUpTo(_, _)
SeqsUpTo(S, n) ==
    IF n = 0 THEN {<<>>}
    ELSE LET shorter == SeqsUpTo(S, n - 1)
         IN  shorter \cup {Append(q, x) : q \in shorter, x \in S}

\* the ways an upstream request fails: the connection, the timeout,
\* raise_for_status, response.json(), and _parse_product on a record
FailureKinds == {"network", "timeout", "status", "body", "parse"}

\* a reply of kind "ok" carries the records of the body, all well-formed; one
\* of kind "parse" carries the well-formed records of a body in which some
\* other record makes _parse_product raise
SearchReplies(n) ==
    {[kind |-> "ok", products |-> q] : q \in SeqsUpTo(Products, n)}
    \cup {[kind |-> k, products |-> <<>>] : k \in FailureKinds}
    \cup {[kind |-> "parse", products |-> <<p>>] : p \in Products}

ProductReplies ==
    {[kind |-> "ok", product |-> Some(p)] : p \in Products}
    \cup {[kind |-> "ok", product |-> None]}
    \cup {[kind |-> k, product |-> None] : k \in FailureKinds}

(***************************************************************************)
(* POST /food/search -> search_products                                    *)
(***************************************************************************)
InitService ==
    /\ pc = "idle"
    /\ sIn = NoInput
    /\ sOut = None
    /\ Idle
    /\ NoParse
    /\ NoQuery /\ NoSearches /\ NoTracking

\* search_food_products calls search_products(request.query, request.limit):
\* min(limit, 15) raises for a None limit, which the outer handler turns
\* into []; otherwise the regional request is sent
SearchStart ==
    /\ pc = "idle"
    /\ \E q \in Queries, l \in Limits :
        /\ req' = Some([query |-> q, limit |-> l])
        /\ IF l = None
             THEN /\ calls' = calls
                  /\ result' = Some(<<>>)
                  /\ http' = Some([status |-> 200, body |-> <<>>])
                  /\ pc' = "done"
             ELSE /\ calls' = Append(calls, SearchCall(INDIA_BASE_URL, q, Min(l[1], 15)))
                  /\ UNCHANGED <<result, http>>
                  /\ pc' = "await_indian"
    /\ UNCHANGED parseVars
    /\ UNCHANGED restVars
    /\ UNCHANGED <<sIn, sOut, indian_products, indian_reply, global_reply>>

\* the regional reply arrives: 5 or more products are returned at once,
\* otherwise the global request is sent; an exception out of
\* _search_with_url would end in the handler of lines 202-204
IndianReply ==
    /\ pc = "await_indian"
    /\ \E reply \in SearchReplies(MaxRegional) :
        LET got == search_with_url(reply)
            limit == req[1].limit[1]
        IN  /\ indian_reply' = Some(reply)
            /\ indian_products' = got.products
            /\ IF got.raised
                 THEN /\ result' = Some(<<>>)
                      /\ http' = Some([status |-> 200, body |-> <<>>])
                      /\ calls' = calls
                      /\ pc' = "done"
                 ELSE IF Len(got.products) >= 5
                 THEN /\ result' = Some(Slice(got.products, limit))
                      /\ http' = Some([status |-> 200,
                                       body |-> Slice(got.products, limit)])
                      /\ calls' = calls
                      /\ pc' = "done"
                 ELSE /\ calls' = Append(calls, SearchCall(BASE_URL, req[1].query, limit))
                      /\ UNCHANGED <<result, http>>
                      /\ pc' = "await_global"
    /\ UNCHANGED parseVars
    /\ UNCHANGED restVars
    /\ UNCHANGED <<sIn, sOut, req, global_reply>>

\* a version of the global step that sends the request again when it failed
GlobalReply_RetryOnFailure ==
    /\ pc = "await_global"
    /\ \E reply \in SearchReplies(MaxGlobal) :
        LET got == search_with_url(reply)
            out == MergeAndRank(indian_products, got.products, req[1].limit[1])
        IN  /\ global_reply' = Some(reply)
            /\ IF reply.kind # "ok"
                 THEN /\ calls' = Append(calls, SearchCall(BASE_URL, req[1].query,
                                                           req[1].limit[1]))
                      /\ UNCHANGED <<result, http, pc>>
                 ELSE /\ result' = Some(out)
                      /\ http' = Some([status |-> 200, body |-> out])
                      /\ pc' = "done"
                      /\ calls' = calls
    /\ UNCHANGED parseVars
    /\ UNCHANGED restVars
    /\ UNCHANGED <<sIn, sOut, req, indian_products, indian_reply>>

\* the global reply arrives: merge, rank, cut, respond
GlobalReply ==
    /\ pc = "await_global"
    /\ \E reply \in SearchReplies(MaxGlobal) :
        LET got == search_with_url(reply)
            out == IF got.raised THEN <<>>
                   ELSE MergeAndRank(indian_products, got.products,
                                     req[1].limit[1])
        IN  /\ global_reply' = Some(reply)
            /\ result' = Some(out)
            /\ http' = Some([status |-> 200, body |-> out])
            /\ pc' = "done"
    /\ UNCHANGED parseVars
    /\ UNCHANGED restVars
    /\ UNCHANGED <<sIn, sOut, req, calls, indian_products, indian_reply>>

(***************************************************************************)
(* GET /food/barcode/{barcode} -> get_product_by_barcode                   *)
(***************************************************************************)
\* a version of get_food_by_barcode without its `if not product` test
BarcodeResponse_No404(product) ==
    [status |-> 200, body |-> IF product = None THEN None ELSE product[1]]

\* get_food_by_barcode: HTTPException 404 when the lookup gave no product,
\* else the product
BarcodeResponse(product) ==
    IF product = None
      THEN [status |-> 404, body |-> "Product not found"]
      ELSE [status |-> 200, body |-> product[1]]

BarcodeStart ==
    /\ pc = "idle"
    /\ \E b \in Barcodes :
        /\ req' = Some([barcode |-> b])
        /\ calls' = Append(calls, ProductCall(INDIA_BASE_URL, b))
    /\ pc' = "bc_await_indian"
    /\ UNCHANGED parseVars
    /\ UNCHANGED restVars
    /\ UNCHANGED <<sIn, sOut, indian_products, indian_reply, global_reply, result, http>>

\* the regional reply: a product is returned at once, else the global
\* request is sent; an exception out of _get_product_from_url would end in
\* the handler of lines 279-281
BarcodeIndianReply ==
    /\ pc = "bc_await_indian"
    /\ \E reply \in ProductReplies :
        LET got == get_product_from_url(reply)
            product == got.product
        IN  /\ indian_reply' = Some(reply)
            /\ IF got.raised
                 THEN /\ result' = Some(None)
                      /\ http' = Some(BarcodeResponse(None))
                      /\ calls' = calls
                      /\ pc' = "bc_done"
                 ELSE IF product # None
                 THEN /\ result' = Some(product)
                      /\ http' = Some(BarcodeResponse(product))
                      /\ calls' = calls
                      /\ pc' = "bc_done"
                 ELSE /\ calls' = Append(calls, ProductCall(BASE_URL, req[1].barcode))
                      /\ UNCHANGED <<result, http>>
                      /\ pc' = "bc_await_global"
    /\ UNCHANGED parseVars
    /\ UNCHANGED restVars
    /\ UNCHANGED <<sIn, sOut, req, indian_products, global_reply>>

\* the global reply is returned as it is
BarcodeGlobalReply ==
    /\ pc = "bc_await_global"
    /\ \E reply \in ProductReplies :
        LET got == get_product_from_url(reply)
            product == IF got.raised THEN None ELSE got.product
        IN  /\ global_reply' = Some(reply)
            /\ result' = Some(product)
            /\ http' = Some(BarcodeResponse(product))
            /\ pc' = "bc_done"
    /\ UNCHANGED parseVars
    /\ UNCHANGED restVars
    /\ UNCHANGED <<sIn, sOut, req, calls, indian_products, indian_reply>>

(***************************************************************************)
(* The routes of api_router and the requests no handler of the model takes *)
(***************************************************************************)
\* INDIAN_FOOD_CATEGORIES, the list search_indian_categories returns
INDIAN_FOOD_CATEGORIES ==
    <<"dal", "rice", "wheat", "atta", "roti", "chapati", "naan", "paratha",
      "curry", "masala", "spices", "ghee", "oil", "pickle", "chutney",
      "sweets", "mithai", "laddu", "gulab jamun", "rasgulla", "jalebi",
      "namkeen", "bhujia", "mixture", "sev", "papad", "poha", "upma",
      "samosa", "kachori", "biscuit", "rusk", "tea", "chai", "coffee",
      "lassi", "buttermilk", "yogurt", "curd", "paneer", "milk", "coconut">>

\* OpenFoodFactsService.search_indian_categories(): no route calls it
search_indian_categories == INDIAN_FOOD_CATEGORIES

\* the decorators of lines 353-396, in order, under the prefix /api.  A path
\* is the sequence of the segments that follow /api, each after its slash:
\* <<>> is /api, <<"">> is /api/ and <<"status", "">> is /api/status/
routes ==
    <<[method |-> "GET", path |-> <<"">>, endpoint |-> "root"],
      [method |-> "POST", path |-> <<"status">>, endpoint |-> "create_status_check"],
      [method |-> "GET", path |-> <<"status">>, endpoint |-> "get_status_checks"],
      [method |-> "POST", path |-> <<"food", "search">>, endpoint |-> "search_food_products"],
      [method |-> "GET", path |-> <<"food", "barcode", "{barcode}">>, endpoint |-> "get_food_by_barcode"],
      [method |-> "POST", path |-> <<"food", "track">>, endpoint |-> "track_food"],
      [method |-> "GET", path |-> <<"food", "track", "{user_id}">>, endpoint |-> "get_food_tracking"],
      [method |-> "DELETE", path |-> <<"food", "track", "{entry_id}">>, endpoint |-> "delete_food_tracking"]>>

IsParam(segment) == segment \in {"{barcode}", "{user_id}", "{entry_id}"}

\* the request path matches the path of a route; a parameter stands for one
\* segment that is not empty
PathMatches(pattern, path) ==
    /\ Len(pattern) = Len(path)
    /\ \A i \in 1..Len(path) :
          IF IsParam(pattern[i]) THEN path[i] # "" ELSE pattern[i] = path[i]

\* the path without the slashes at its end, which are its empty last segments
RECURSIVE WithoutTrailingSlashes(_)
WithoutTrailingSlashes(path) ==
    IF path # <<>> /\ path[Len(path)] = ""
      THEN WithoutTrailingSlashes(SubSeq(path, 1, Len(path) - 1))
      ELSE path

\* the path the router tries when no route matches: without the slashes at
\* its end, or with one when it has none
OtherSlash(path) ==
    IF path # <<>> /\ path[Len(path)] = "" THEN WithoutTrailingSlashes(path)
    ELSE Append(path, "")

\* a route of any method matches the path once its slashes are changed
Redirects(path) == \E k \in 1..Len(routes) : PathMatches(routes[k].path, OtherSlash(path))

\* the router: the first route that matches path and method; a path that
\* only routes of other methods match is 405; a path that a route matches
\* once the slashes at its end are changed is redirected there (307); any
\* other path is 404
Dispatch(method, path) ==
    LET full == {k \in 1..Len(routes) :
                     routes[k].method = method /\ PathMatches(routes[k].path, path)}
        partial == {k \in 1..Len(routes) : PathMatches(routes[k].path, path)}
    IN  IF full # {} THEN routes[CHOOSE k \in full : \A j \in full : k <= j].endpoint
        ELSE IF partial # {} THEN "method_not_allowed"
        ELSE IF Redirects(path) THEN "redirect"
        ELSE "not_found"

\* GET requests that reach no upstream source and no database
GetPaths ==
    {<<"">>, <<>>, <<"food", "categories">>, <<"food", "search">>, <<"food", "search", "">>,
     <<"food", "barcode", "">>, <<"food", "track", "">>}

\* GET <path>: answered by root() or by the router itself
GetRequest ==
    /\ pc = "idle"
    /\ \E path \in GetPaths :
        /\ req' = Some([method |-> "GET", path |-> path])
        /\ http' = Some(
             CASE Dispatch("GET", path) = "root" ->
                    [status |-> 200, body |-> [message |-> "Food Health Tracker API"]]
               [] Dispatch("GET", path) = "method_not_allowed" ->
                    [status |-> 405, body |-> "Method Not Allowed"]
               [] Dispatch("GET", path) = "redirect" ->
                    [status |-> 307, body |-> ""]
               [] Dispatch("GET", path) = "not_found" ->
                    [status |-> 404, body |-> "Not Found"])
    /\ pc' = "get_done"
    /\ UNCHANGED parseVars
    /\ UNCHANGED restVars
    /\ UNCHANGED <<sIn, sOut, calls, indian_products, indian_reply, global_reply, result>>

NextService ==
    \/ SearchStart
    \/ IndianReply
    \/ GlobalReply
    \/ BarcodeStart
    \/ BarcodeIndianReply
    \/ BarcodeGlobalReply
    \/ GetRequest

SpecService == InitService /\ [][NextService]_vars

(***************************************************************************)
(* The scoring specification: any arguments, then the call.                *)
(***************************************************************************)
InitScore ==
    /\ pc = "score"
    /\ sIn \in ScoreInputs
    /\ sOut = None
    /\ Idle
    /\ NoParse
    /\ NoQuery /\ NoSearches /\ NoTracking

\* HealthScoreCalculator.calculate_health_score(nutrition, grade, nova, additives)
Score ==
    /\ pc = "score"
    /\ \E fp \in FloatDeviations(sIn.nutrition, sIn.grade, sIn.nova, sIn.additives) :
          sOut' = Some(calculate_health_score(sIn.nutrition, sIn.grade, sIn.nova,
                                              sIn.additives, fp))
    /\ pc' = "scored"
    /\ UNCHANGED parseVars
    /\ UNCHANGED restVars
    /\ UNCHANGED <<sIn, req, calls, indian_products, indian_reply, global_reply,
                   result, http>>

NextScore == Score

SpecScore == InitScore /\ [][NextScore]_vars

(***************************************************************************)
(* OpenFoodFactsService._parse_product and the loop that calls it          *)
(***************************************************************************)
\* A JSON value of an upstream record, tagged with its type, the payload in
\* a field of its own per type.  Strings are sequences of characters.  An
\* object is the sequence of its <<key, value>> pairs in their order; the
\* record itself (product_data) is given by the values under the keys that
\* _parse_product reads, `absent` standing for a key the record lacks.
Absent == [kind |-> "absent"]
Null == [kind |-> "null"]
Str(s) == [kind |-> "str", s |-> s]
Num(n) == [kind |-> "num", n |-> n]
Obj(o) == [kind |-> "object", o |-> o]
List(l) == [kind |-> "list", l |-> l]

\* dict.get(key, default), given the value stored under the key
Get(value, default) == IF value.kind = "absent" THEN default ELSE value

\* the value an object holds under a key, `absent` when it has none; of a
\* key written more than once the last value is the one that is kept
RECURSIVE Lookup(_, _)
Lookup(o, key) ==
    IF o = <<>> THEN Absent
    ELSE IF o[Len(o)][1] = key THEN o[Len(o)][2]
    ELSE Lookup(SubSeq(o, 1, Len(o) - 1), key)

\* the keys of an object in the order of iteration: each key once, where it
\* was written first
Keys(o) ==
    SelectSeq([i \in 1..Len(o) |-> IF \E j \in 1..(i - 1) : o[j][1] = o[i][1]
                                      THEN Absent ELSE Str(o[i][1])],
              LAMBDA k : k # Absent)

\* the outcome of a step that raised
Raised == [raised |-> TRUE]

\* str.startswith(prefix)
StartsWith(s, prefix) ==
    /\ Len(s) >= Len(prefix)
    /\ \A j \in 1..Len(prefix) : s[j] = prefix[j]

\* str.replace(old, ""): every occurrence of old is removed, left to right
RECURSIVE Remove(_, _)
Remove(s, old) ==
    IF Len(s) < Len(old) THEN s
    ELSE IF StartsWith(s, old)
      THEN Remove(SubSeq(s, Len(old) + 1, Len(s)), old)
      ELSE <<Head(s)>> \o Remove(Tail(s), old)

en_prefix == <<"e", "n", ":">>

\* [additive.replace("en:", "") for additive in tags if additive.startswith("en:")]
\* over a list of strings
RECURSIVE StripEnTags(_)
StripEnTags(tags) ==
    IF tags = <<>> THEN <<>>
    ELSE IF StartsWith(Head(tags).s, en_prefix)
      THEN <<Remove(Head(tags).s, en_prefix)>> \o StripEnTags(Tail(tags))
      ELSE StripEnTags(Tail(tags))

\* lines 325-327.  Iterating None or a number raises TypeError; an element
\* that is not a string has no startswith (AttributeError); iterating a
\* string yields its characters, none of which starts with "en:"; iterating
\* an object yields its keys, which are strings.
extract_additives(product_data) ==
    LET tags == Get(product_data.additives_tags, List(<<>>))
    IN  CASE tags.kind = "list" ->
               IF \E i \in 1..Len(tags.l) : tags.l[i].kind # "str"
                 THEN Raised
                 ELSE [raised |-> FALSE, additives |-> StripEnTags(tags.l)]
          [] tags.kind = "str" -> [raised |-> FALSE, additives |-> <<>>]
          [] tags.kind = "object" ->
               [raised |-> FALSE,
                additives |-> StripEnTags(Keys(tags.o))]
          [] OTHER -> Raised

\* str(uuid.uuid4()) at the k-th call: a string no other call returns and
\* no upstream code equals
DigitChar(d) ==
    CASE d = 0 -> "0" [] d = 1 -> "1" [] d = 2 -> "2" [] d = 3 -> "3"
      [] d = 4 -> "4" [] d = 5 -> "5" [] d = 6 -> "6" [] d = 7 -> "7"
      [] d = 8 -> "8" [] d = 9 -> "9"

RECURSIVE Decimal(_)
Decimal(k) ==
    IF k < 10 THEN <<DigitChar(k)>> ELSE Decimal(k \div 10) \o <<DigitChar(k % 10)>>

uuid4(k) == <<"u", "u", "i", "d", "4", "-">> \o Decimal(k)

(***************************************************************************)
(* Numbers given as strings: what the validation of an int or a float      *)
(* field of a pydantic model (lines 46-54, 62) accepts and converts.  The   *)
(* numbers are those TLC can hold.                                          *)
(***************************************************************************)
DigitChars == {"0", "1", "2", "3", "4", "5", "6", "7", "8", "9"}

\* a non-empty string of decimal digits
IsDigits(s) ==
    /\ s # <<>>
    /\ \A i \in 1..Len(s) : s[i] \in DigitChars

RECURSIVE IntOfDigits(_)
IntOfDigits(s) ==
    IF s = <<>> THEN 0
    ELSE 10 * IntOfDigits(SubSeq(s, 1, Len(s) - 1))
         + (CHOOSE d \in 0..9 : DigitChar(d) = s[Len(s)])

RECURSIVE Pow10(_)
Pow10(k) == IF k = 0 THEN 1 ELSE 10 * Pow10(k - 1)

\* the white space that the conversion of a string to a number trims
\* (Unicode White_Space): tab, line feed, vertical tab, form feed, carriage
\* return, space, next line (U+0085), no-break space (U+00A0), ogham space
\* mark (U+1680), and the spaces and separators from U+2000 to U+3000
IsSpace(c) ==
    c \in {"\t", "\n", "", "\f", "\r", " ", "", " ", " ", "U+2000", "U+2001", "U+2002", "U+2003",
          "U+2004", "U+2005", "U+2006", "U+2007", "U+2008", "U+2009", "U+200A", "U+2028", "U+2029",
          "U+202F", "U+205F", "U+3000"}

RECURSIVE LStrip(_)
LStrip(s) == IF s # <<>> /\ IsSpace(Head(s)) THEN LStrip(Tail(s)) ELSE s

RECURSIVE RStrip(_)
RStrip(s) ==
    IF s # <<>> /\ IsSpace(s[Len(s)]) THEN RStrip(SubSeq(s, 1, Len(s) - 1)) ELSE s

\* the string without the white space around it
Trim(s) == RStrip(LStrip(s))

\* the position of the first character of s that is in chars, 0 if none
IndexOf(s, chars) ==
    IF \E i \in 1..Len(s) : s[i] \in chars
      THEN CHOOSE i \in 1..Len(s) :
               /\ s[i] \in chars
               /\ \A j \in 1..(i - 1) : s[j] \notin chars
      ELSE 0

\* a leading sign, and the string without it
Negative(s) == s # <<>> /\ Head(s) = "-"
Unsigned(s) == IF s # <<>> /\ Head(s) \in {"+", "-"} THEN Tail(s) ELSE s
WithSign(negative, s) == IF negative THEN <<"-">> \o s ELSE s

\* n, negated under a minus sign
Signed(negative, n) == IF negative THEN -n ELSE n

\* the part of s before position i, all of s when i is 0
Before(s, i) == IF i = 0 THEN s ELSE SubSeq(s, 1, i - 1)

\* the part of s after position i, nothing when i is 0
After(s, i) == IF i = 0 THEN <<>> ELSE SubSeq(s, i + 1, Len(s))

\* underscores can be taken out of s: it has one, none at either end and no
\* two in a row
Grouped(s) ==
    /\ \E i \in 1..Len(s) : s[i] = "_"
    /\ s[1] # "_" /\ s[Len(s)] # "_"
    /\ \A i \in 1..(Len(s) - 1) : ~(s[i] = "_" /\ s[i + 1] = "_")

WithoutUnderscores(s) == SelectSeq(s, LAMBDA c : c # "_")

\* a string that is no number
NoValue == [ok |-> FALSE]

\* the string without a leading "-"
DropMinus(s) == IF Negative(s) THEN Tail(s) ELSE s

\* digits as JSON writes an integer: 0, or digits that do not begin with 0
IsJsonDigits(d) == IsDigits(d) /\ (Len(d) = 1 \/ d[1] # "0")

\* an integer as JSON writes it: an optional "-", then the digits
PlainInt(s) ==
    IF IsJsonDigits(DropMinus(s))
      THEN [ok |-> TRUE, n |-> Signed(Negative(s), IntOfDigits(DropMinus(s)))]
      ELSE NoValue

\* leading zeros taken off a string that begins with 0, from position i on:
\* zeros and underscores are passed over; a digit or "-" ends them, a "."
\* ends them and keeps the one zero before it; the last character is kept
\* when there is nothing else
RECURSIVE SkipZeros(_, _)
SkipZeros(s, i) ==
    IF i > Len(s) THEN [ok |-> TRUE, s |-> <<s[Len(s)]>>]
    ELSE IF s[i] \in {"0", "_"} THEN SkipZeros(s, i + 1)
    ELSE IF s[i] \in (DigitChars \ {"0"}) \cup {"-"}
      THEN [ok |-> TRUE, s |-> SubSeq(s, i, Len(s))]
    ELSE IF s[i] = "." THEN [ok |-> TRUE, s |-> SubSeq(s, i - 1, Len(s))]
    ELSE NoValue

\* the string without its leading zeros; it has to begin with a digit or "-"
StripLeadingZeros(s) ==
    IF s = <<>> THEN NoValue
    ELSE IF Head(s) = "0" THEN SkipZeros(s, 2)
    ELSE IF Head(s) \in (DigitChars \ {"0"}) \cup {"-"} THEN [ok |-> TRUE, s |-> s]
    ELSE NoValue

\* "." at position dot and the zeros after it taken off, when there are
\* zeros and nothing else after it
DropZeroDecimals(s, dot) ==
    IF dot # 0 /\ dot < Len(s) /\ \A i \in (dot + 1)..Len(s) : s[i] = "0"
      THEN SubSeq(s, 1, dot - 1)
      ELSE s

\* the digits that are left, as an int; a string that is as long as it was
\* given had nothing taken off and stays no integer
IntOfStripped(given, negative, s) ==
    IF s # <<>> /\ Grouped(s) THEN PlainInt(WithSign(negative, WithoutUnderscores(s)))
    ELSE IF given = Len(s) THEN NoValue
    ELSE PlainInt(WithSign(negative, s))

IntOfZeroStripped(given, negative, z) ==
    IF z.ok THEN IntOfStripped(given, negative, DropZeroDecimals(z.s, IndexOf(z.s, {"."})))
    ELSE NoValue

\* the string after a "+" was taken off: a "-" is taken off and remembered,
\* a second sign is no integer
IntOfSigned(given, s) ==
    IF Negative(s)
      THEN IF Len(s) > 1 /\ s[2] \in {"-", "+"} THEN NoValue
           ELSE IntOfZeroStripped(given, TRUE, StripLeadingZeros(Tail(s)))
      ELSE IntOfZeroStripped(given, FALSE, StripLeadingZeros(s))

\* a string without white space around it as an int: a JSON integer, or what
\* is left when a "+", leading zeros, a "." followed by zeros only and
\* underscores between the characters are taken off
IntOfTrimmed(t) ==
    IF PlainInt(t).ok THEN PlainInt(t)
    ELSE IF t # <<>> /\ Head(t) = "+"
      THEN IF Len(t) > 1 /\ t[2] = "-" THEN NoValue ELSE IntOfSigned(Len(t), Tail(t))
      ELSE IntOfSigned(Len(t), t)

\* a string as an int
IntOfString(s) == IntOfTrimmed(Trim(s))

\* n / 10^k: the digits below the unit are cut, `exact` tells whether they
\* were all 0
RECURSIVE ShiftDown(_, _, _)
ShiftDown(n, k, exact) ==
    IF k = 0 \/ n = 0 THEN [n |-> n, exact |-> exact]
    ELSE ShiftDown(n \div 10, k - 1, exact /\ n % 10 = 0)

\* n * 10^shift
Scaled(n, shift) ==
    IF shift < 0 THEN ShiftDown(n, -shift, TRUE)
    ELSE [n |-> n * Pow10(shift), exact |-> TRUE]

\* the number of decimal digits of n
RECURSIVE Digits(_)
Digits(n) == IF n < 10 THEN 1 ELSE 1 + Digits(n \div 10)

\* the first nine digits of n, zeros after them when n has fewer
Leading(n) == IF n >= 1000000000 THEN n \div 10 ELSE n * Pow10(9 - Digits(n))

\* n * 10^x is nearer to 0 than to the least float above 0, that is at most
\* 2^-1075 = 2.47032822920...e-324: the float is 0.0
Underflows(n, x) ==
    \/ Digits(n) + x < -323
    \/ Digits(n) + x = -323 /\ Leading(n) <= 247032822

\* n * 10^x is at least 2^1024 - 2^970 = 1.79769313486...e308: the float is
\* inf
Overflows(n, x) ==
    \/ Digits(n) + x > 309
    \/ /\ Digits(n) + x = 309
       /\ \/ Leading(n) > 179769313
          \/ Leading(n) = 179769313 /\ n >= 1000000000 /\ n % 10 >= 5

\* n * 10^shift is a number beyond those of the model
Huge(n, shift) == shift > 9 \/ (shift >= 0 /\ n > 2147483647 \div Pow10(shift))

\* the float of a sign and a scaled number
FloatValue(negative, d) ==
    IF d.exact THEN <<Signed(negative, d.n)>>
    ELSE <<Signed(negative, d.n), IF negative THEN "less" ELSE "more">>

\* the float nearest to n * 10^x under a sign, in units of 10^-places
FloatOfDecimal(negative, n, x, places) ==
    IF n = 0 \/ Underflows(n, x) THEN <<0>>
    ELSE IF Overflows(n, x) THEN <<0, IF negative THEN "-inf" ELSE "inf">>
    ELSE IF Huge(n, x + places) THEN <<0, IF negative THEN "-huge" ELSE "huge">>
    ELSE FloatValue(negative, Scaled(n, x + places))

\* the sign, the digits before and after ".", and the exponent, as a float
FloatOfParts(negative, whole, fraction, exponent, places) ==
    IF IsDigits(whole \o fraction) /\ IsDigits(Unsigned(exponent))
      THEN [ok |-> TRUE,
            v |-> FloatOfDecimal(negative, IntOfDigits(whole \o fraction),
                                 Signed(Negative(exponent), IntOfDigits(Unsigned(exponent)))
                                     - Len(fraction),
                                 places)]
      ELSE NoValue

\* the mantissa split at its first "."
FloatOfMantissa(negative, mantissa, exponent, places) ==
    FloatOfParts(negative, Before(mantissa, IndexOf(mantissa, {"."})),
                 After(mantissa, IndexOf(mantissa, {"."})), exponent, places)

\* the string without its sign: inf, infinity or nan in any case of the
\* letters, or digits with at most one "." and optionally e or E with a
\* signed exponent, split at position e
FloatOfBody(negative, body, e, places) ==
    IF Lower(body) \in {<<"i", "n", "f">>, <<"i", "n", "f", "i", "n", "i", "t", "y">>}
      THEN [ok |-> TRUE, v |-> <<0, IF negative THEN "-inf" ELSE "inf">>]
    ELSE IF Lower(body) = <<"n", "a", "n">> THEN [ok |-> TRUE, v |-> <<0, "nan">>]
    ELSE FloatOfMantissa(negative, Before(body, e),
                         IF e = 0 THEN <<"0">> ELSE After(body, e), places)

\* a string as it is, as a float
FloatOfPlain(t, places) ==
    FloatOfBody(Negative(t), Unsigned(t), IndexOf(Unsigned(t), {"e", "E"}), places)

\* A string as a float, in units of 10^-places: the string without the white
\* space around it, or else the string as it was given with its underscores
\* taken out.
FloatOfString(s, places) ==
    IF FloatOfPlain(Trim(s), places).ok THEN FloatOfPlain(Trim(s), places)
    ELSE IF s # <<>> /\ Grouped(s) THEN FloatOfPlain(WithoutUnderscores(s), places)
    ELSE NoValue

\* the result of the validation of an int field from a conversion
Converted(r) == IF r.ok THEN [raised |-> FALSE, v |-> Some(r.n)] ELSE Raised

\* the result of the validation of a float field from a conversion
Held(r) == IF r.ok THEN [raised |-> FALSE, v |-> r.v] ELSE Raised

\* an Optional[float] field of NutritionInfo, kept in units of 10^-places:
\* None stays None, a number is kept, a string that reads as a number is
\* converted, anything else is a ValidationError
OptionalFloat(value, places) ==
    CASE value.kind \in {"absent", "null"} -> [raised |-> FALSE, v |-> None]
      [] value.kind = "num" -> [raised |-> FALSE, v |-> Some(value.n)]
      [] value.kind = "str" -> Held(FloatOfString(value.s, places))
      [] OTHER -> Raised

\* the fields of NutritionInfo, each with the key of nutriments it is read
\* from (lines 313-323) and the decimal places of its unit in the model
NutrimentKeys ==
    << <<"energy", "energy-kcal_100g", 1>>,
       <<"fat", "fat_100g", 2>>,
       <<"saturated_fat", "saturated-fat_100g", 2>>,
       <<"carbohydrates", "carbohydrates_100g", 2>>,
       <<"sugars", "sugars_100g", 2>>,
       <<"fiber", "fiber_100g", 2>>,
       <<"proteins", "proteins_100g", 2>>,
       <<"salt", "salt_100g", 2>>,
       <<"sodium", "sodium_100g", 2>> >>

\* the argument NutritionInfo(...) is given for the i-th field
NutritionArgument(nutriments, i) ==
    OptionalFloat(Lookup(nutriments.o, NutrimentKeys[i][2]), NutrimentKeys[i][3])

\* lines 311-323.  nutriments.get raises AttributeError unless nutriments is
\* an object; NutritionInfo validates each of its nine fields.
extract_nutrition(product_data) ==
    LET nutriments == Get(product_data.nutriments, Obj(<<>>))
    IN  IF nutriments.kind # "object" THEN Raised
        ELSE IF \E i \in 1..Len(NutrimentKeys) : NutritionArgument(nutriments, i).raised
          THEN Raised
        ELSE [raised |-> FALSE,
              nutrition |->
                  [f \in {NutrimentKeys[i][1] : i \in 1..Len(NutrimentKeys)} |->
                      LET i == CHOOSE j \in 1..Len(NutrimentKeys) : NutrimentKeys[j][1] = f
                      IN  NutritionArgument(nutriments, i).v]]

\* a field declared `str`: a string is kept, None is a ValidationError
RequiredStr(value) ==
    IF value.kind = "str" THEN [raised |-> FALSE, v |-> value.s] ELSE Raised

\* a field declared Optional[str]
OptionalStr(value) ==
    CASE value.kind \in {"absent", "null"} -> [raised |-> FALSE, v |-> None]
      [] value.kind = "str" -> [raised |-> FALSE, v |-> Some(value.s)]
      [] OTHER -> Raised

\* a field declared Optional[int]: a number is kept, a string that reads as
\* an int is converted, any other string is a ValidationError
OptionalInt(value) ==
    CASE value.kind \in {"absent", "null"} -> [raised |-> FALSE, v |-> None]
      [] value.kind = "num" -> [raised |-> FALSE, v |-> Some(value.n)]
      [] value.kind = "str" -> Converted(IntOfString(value.s))
      [] OTHER -> Raised

\* the nutriscore_grade argument of the score (lines 119-121): a falsy value
\* (None, 0, "", [], {}) is skipped; a truthy value that is not a string has
\* no lower()
GradeArgument(value) ==
    CASE value.kind \in {"absent", "null"} -> [raised |-> FALSE, v |-> None]
      [] value.kind = "str" -> [raised |-> FALSE, v |-> Some(value.s)]
      [] value.kind = "num" /\ value.n = 0 -> [raised |-> FALSE, v |-> None]
      [] value.kind = "list" /\ value.l = <<>> -> [raised |-> FALSE, v |-> None]
      [] value.kind = "object" /\ value.o = <<>> -> [raised |-> FALSE, v |-> None]
      [] OTHER -> Raised

\* the nova_group argument of the score (lines 124-126): a falsy value is
\* skipped; the table has integer keys, a string finds none of them and
\* contributes 0; a list or an object that is not empty cannot be hashed and
\* nova_penalties.get raises TypeError
NovaArgument(value) ==
    CASE value.kind = "num" -> [raised |-> FALSE, v |-> Some(value.n)]
      [] value.kind = "list" /\ value.l # <<>> -> Raised
      [] value.kind = "object" /\ value.o # <<>> -> Raised
      [] OTHER -> [raised |-> FALSE, v |-> None]

\* a version of the constructor that leaves health_score and health_rating
\* at the defaults of their declarations
FoodProduct_ScoreNotAttached(id, product_name, brand, image_url, barcode, nutriscore_grade, nova_group, nutrition, ingredients_text, health, additives) ==
    IF \/ RequiredStr(id).raised \/ RequiredStr(product_name).raised
       \/ OptionalStr(brand).raised \/ OptionalStr(image_url).raised
       \/ OptionalStr(barcode).raised
       \/ OptionalStr(nutriscore_grade).raised \/ OptionalInt(nova_group).raised
       \/ OptionalStr(ingredients_text).raised
      THEN Raised
      ELSE [raised |-> FALSE,
            product |-> [id |-> RequiredStr(id).v,
                         product_name |-> RequiredStr(product_name).v,
                         brand |-> OptionalStr(brand).v,
                         image_url |-> OptionalStr(image_url).v,
                         barcode |-> OptionalStr(barcode).v,
                         nutriscore_grade |-> OptionalStr(nutriscore_grade).v,
                         nova_group |-> OptionalInt(nova_group).v,
                         nutrition |-> Some(nutrition),
                         ingredients_text |-> OptionalStr(ingredients_text).v,
                         health_score |-> None,
                         health_rating |-> None,
                         additives |-> Some(additives)]]

\* FoodProduct(...) of lines 337-350: the declared types of lines 56-68 are
\* validated, then the object holds the values
FoodProduct(id, product_name, brand, image_url, barcode, nutriscore_grade, nova_group, nutrition, ingredients_text, health, additives) ==
    IF \/ RequiredStr(id).raised \/ RequiredStr(product_name).raised
       \/ OptionalStr(brand).raised \/ OptionalStr(image_url).raised
       \/ OptionalStr(barcode).raised
       \/ OptionalStr(nutriscore_grade).raised \/ OptionalInt(nova_group).raised
       \/ OptionalStr(ingredients_text).raised
      THEN Raised
      ELSE [raised |-> FALSE,
            product |-> [id |-> RequiredStr(id).v,
                         product_name |-> RequiredStr(product_name).v,
                         brand |-> OptionalStr(brand).v,
                         image_url |-> OptionalStr(image_url).v,
                         barcode |-> OptionalStr(barcode).v,
                         nutriscore_grade |-> OptionalStr(nutriscore_grade).v,
                         nova_group |-> OptionalInt(nova_group).v,
                         nutrition |-> Some(nutrition),
                         ingredients_text |-> OptionalStr(ingredients_text).v,
                         health_score |-> Some(health.score),
                         health_rating |-> Some(health.rating),
                         additives |-> Some(additives)]]

unknown_product ==
    <<"U", "n", "k", "n", "o", "w", "n", " ", "P", "r", "o", "d", "u", "c", "t">>

\* the arguments calculate_health_score is called with (lines 330-335), or
\* what raised before the call
ScoreArguments(product_data) ==
    LET n == extract_nutrition(product_data)
        a == extract_additives(product_data)
    IN  IF n.raised \/ a.raised THEN Raised
        ELSE [raised |-> FALSE,
              nutrition |-> Some(n.nutrition),
              grade |-> GradeArgument(Get(product_data.nutriscore_grade, Null)),
              nova |-> NovaArgument(Get(product_data.nova_group, Null)),
              additives |-> Some(a.additives)]

\* the sides the float score of the record can lie on
ParseDeviations(product_data) ==
    LET args == ScoreArguments(product_data)
    IN  IF args.raised \/ args.grade.raised \/ args.nova.raised THEN {0}
        ELSE FloatDeviations(args.nutrition, args.grade.v, args.nova.v, args.additives)

\* _parse_product(product_data), k - 1 identifiers having been generated
\* before it and the float score deviating by fp, one of ParseDeviations of
\* the record, from its fixed-point value.  `generated` tells whether
\* uuid.uuid4() was called: the default of .get("code", ...) is evaluated
\* whenever line 338 is reached.
parse_product(product_data, k, fp) ==
    LET args == ScoreArguments(product_data)
    IN  IF args.raised \/ args.grade.raised \/ args.nova.raised
          THEN [raised |-> TRUE, generated |-> FALSE]
          ELSE LET health == calculate_health_score(args.nutrition, args.grade.v,
                                                    args.nova.v, args.additives, fp)
                   p == FoodProduct(
                            Get(product_data.code, Str(uuid4(k))),
                            Get(product_data.product_name, Str(unknown_product)),
                            Get(product_data.brands, Null),
                            Get(product_data.image_url, Null),
                            Get(product_data.code, Null),
                            Get(product_data.nutriscore_grade, Null),
                            Get(product_data.nova_group, Null),
                            args.nutrition[1],
                            Get(product_data.ingredients_text, Null),
                            health, args.additives[1])
               IN  IF p.raised THEN [raised |-> TRUE, generated |-> TRUE]
                   ELSE [raised |-> FALSE, generated |-> TRUE, product |-> p.product]

(***************************************************************************)
(* Upstream records of the parsing specification.  Numbers are in the      *)
(* units of the scoring model (energy in 0.1 kcal, grams in 0.01 g).       *)
(***************************************************************************)
MaxRecords == 2   \* records in one upstream body
MaxTags == 3      \* entries of one additives_tags list

en_e330 == <<"e", "n", ":", "e", "3", "3", "0">>
fr_e100 == <<"f", "r", ":", "e", "1", "0", "0">>
en_en_e330 == <<"e", "n", ":", "e", "n", ":", "e", "3", "3", "0">>
en_green_s == <<"e", "n", ":", "g", "r", "e", "e", "n", ":", "s">>
bare_e330 == <<"e", "3", "3", "0">>

Codes == {Absent, Null, Str(<<>>), Str(<<"8", "9", "0", "1">>)}
Names == {Absent, Null, Str(<<>>), Str(<<"D", "a", "l">>)}
Brands == {Absent, Str(<<"A", "m", "u", "l">>)}
RawGrades == {Absent, Null, Str(<<"e">>), Num(5), List(<<>>)}
RawNovas ==
    {Absent, Null, Num(4), Str(<<"4">>), Str(<<"a", "b", "c">>),
     Str(<<"-", "4">>), Str(<<" ", "4", ".", "0">>), Str(<<"4", ".">>), List(<<Num(4)>>)}
RawNutriments ==
    {Absent, Null, Obj(<<>>),
     Obj(<< <<"energy-kcal_100g", Num(5000)>>, <<"sugars_100g", Num(4000)>> >>),
     Obj(<< <<"sugars_100g", Str(<<"a", "b", "c">>)>> >>),
     Obj(<< <<"sugars_100g", Str(<<"4", "0">>)>>,
            <<"sodium_100g", Str(<<" ", "1", ".", "0", "3">>)>> >>),
     Obj(<< <<"sugars_100g", Num(4000)>>,
            <<"sugars_100g", Str(<<"2", "0", ".", "0", "0", "4">>)>>,
            <<"fiber_100g", Str(<<"i", "n", "f">>)>> >>),
     Obj(<< <<"fat_100g", Str(<<"a", "b", "c">>)>> >>)}

Tags == {Str(en_e330), Str(fr_e100), Str(en_en_e330), Str(en_green_s), Str(bare_e330)}

RawTags ==
    {Absent, Null, Str(en_e330), List(<<>>), List(<<Str(en_e330)>>), List(<<Num(330)>>),
     Obj(<< <<fr_e100, Num(1)>>, <<en_e330, Num(2)>>, <<en_e330, Num(3)>> >>)}

RawTexts == {Absent, Null, Str(<<"u", "r", "l">>), Num(5), List(<<Str(<<"a">>)>>)}

\* records that vary every field the score or the identity depends on, by kind
FieldRecords ==
    [code : Codes, product_name : Names, brands : Brands, image_url : {Absent},
     nutriscore_grade : RawGrades, nova_group : RawNovas,
     nutriments : RawNutriments, ingredients_text : {Absent},
     additives_tags : RawTags]

PlainRecord ==
    [code |-> Str(<<"8", "9", "0", "1">>), product_name |-> Str(<<"D", "a", "l">>),
     brands |-> Absent, image_url |-> Absent, nutriscore_grade |-> Absent,
     nova_group |-> Absent, nutriments |-> Absent, ingredients_text |-> Absent,
     additives_tags |-> Absent]

\* records that vary the additive tags
TagRecords ==
    {[PlainRecord EXCEPT !.additives_tags = List(l)] : l \in SeqsUpTo(Tags, MaxTags)}

\* records that vary the code and the name
IdRecords ==
    {[PlainRecord EXCEPT !.code = c, !.product_name = n] : c \in Codes, n \in Names}

\* records that vary the two texts
TextRecords ==
    {[PlainRecord EXCEPT !.image_url = u, !.ingredients_text = t] :
        u \in RawTexts, t \in RawTexts}

\* data["products"] of one upstream body
RawBatches ==
    {<<r>> : r \in FieldRecords \cup TagRecords \cup TextRecords}
        \cup (SeqsUpTo(IdRecords, MaxRecords) \ {<<>>})

(***************************************************************************)
(* The parsing specification: the loop of _search_with_url over one body   *)
(***************************************************************************)
InitParse ==
    /\ pc = "parse"
    /\ sIn = NoInput
    /\ sOut = None
    /\ Idle
    /\ raw \in RawBatches
    /\ parsed = <<>>
    /\ next_uuid = 1
    /\ NoQuery /\ NoSearches /\ NoTracking

\* one iteration of `for product in data.get("products", [])` (lines 226-228);
\* an exception of _parse_product is caught by line 231 and [] is returned
ParseNext ==
    /\ pc = "parse"
    /\ Len(parsed) < Len(raw)
    /\ \E fp \in ParseDeviations(raw[Len(parsed) + 1]) :
       LET r == parse_product(raw[Len(parsed) + 1], next_uuid, fp)
       IN  /\ next_uuid' = IF r.generated THEN next_uuid + 1 ELSE next_uuid
           /\ IF r.raised
                THEN /\ parsed' = <<>>
                     /\ pc' = "parse_failed"
                ELSE /\ parsed' = Append(parsed, r.product)
                     /\ pc' = IF Len(parsed) + 1 = Len(raw) THEN "parse_done"
                              ELSE "parse"
    /\ UNCHANGED <<sIn, sOut, req, calls, indian_products, indian_reply,
                   global_reply, result, http, raw>>
    /\ UNCHANGED restVars

NextParse == ParseNext

SpecParse == InitParse /\ [][NextParse]_vars

(***************************************************************************)
(* The query specification: _enhance_indian_query on the way to both       *)
(* sources                                                                 *)
(***************************************************************************)
MaxWords == 2   \* words of a query

QueryWords ==
    { <<"A","t","t","a">>, <<"d","a","l">>, <<"C","H","A","W","A","L">>,
      <<"G","h","e","e">>, <<"m","a","s","a","l","a">>, <<"C","h","a","i">>,
      <<"p","a","p","a","d","s">>, <<"p","i","c","k","l","e","d">>,
      <<"m","i","l","k">>, <<"S","a","n","d","a","l">> }

\* the queries of up to n words, separated by one space
RECURSIVE QueriesOfWords(_)
QueriesOfWords(n) ==
    IF n = 0 THEN {<<>>}
    ELSE LET shorter == QueriesOfWords(n - 1)
         IN  shorter \cup {IF q = <<>> THEN w ELSE q \o <<" ">> \o w :
                              q \in shorter, w \in QueryWords}

QueryInputs == QueriesOfWords(MaxWords)

InitQuery ==
    /\ pc = "query"
    /\ qIn \in {Some(q) : q \in QueryInputs}
    /\ qOut = None
    /\ sIn = NoInput
    /\ sOut = None
    /\ Idle
    /\ NoParse
    /\ NoSearches /\ NoTracking

\* search_products sends the regional request: _search_with_url rewrites
\* its `query` argument (lines 166-168, 211), here with the default limit
RewriteRegional ==
    /\ pc = "query"
    /\ qOut' = Some([regional |-> Some(SearchCall(INDIA_BASE_URL, qIn[1],
                                                   Min(DefaultLimit, 15)).search_terms),
                     global |-> None])
    /\ pc' = "query_await_regional"
    /\ UNCHANGED <<qIn, searches, trackVars>>
    /\ UNCHANGED <<scoreVars, serviceVars, parseVars>>

\* the regional reply holds 5 records or more: they are returned and no
\* second request is made (lines 171-172)
QueryDirectReturn ==
    /\ pc = "query_await_regional"
    /\ pc' = "query_done"
    /\ UNCHANGED <<queryVars, searches, trackVars>>
    /\ UNCHANGED <<scoreVars, serviceVars, parseVars>>

\* the regional reply holds fewer than 5 records: the global request is
\* sent, its `query` argument rewritten by its own call (lines 175-177, 211)
RewriteGlobal ==
    /\ pc = "query_await_regional"
    /\ qOut' = Some([qOut[1] EXCEPT !.global =
                         Some(SearchCall(BASE_URL, qIn[1], DefaultLimit).search_terms)])
    /\ pc' = "query_await_global"
    /\ UNCHANGED <<qIn, searches, trackVars>>
    /\ UNCHANGED <<scoreVars, serviceVars, parseVars>>

NextQuery ==
    \/ RewriteRegional
    \/ QueryDirectReturn
    \/ RewriteGlobal

SpecQuery == InitQuery /\ [][NextQuery]_vars

(***************************************************************************)
(* The concurrent specification: several search_products calls in flight,  *)
(* each a coroutine with its own locals and its own client, interleaved at *)
(* their awaits                                                            *)
(***************************************************************************)
SearchIds == {1, 2}

ConcLimits == {1, 3}

ConcQueries == Queries \cup { <<"m","i","l","k">> }

\* bodies of the regional and of the global source; the records stand for
\* well-formed upstream records
ConcRegionalReplies ==
    { [kind |-> "ok", products |-> <<>>],
      [kind |-> "ok", products |-> <<Kraft>>],
      [kind |-> "ok", products |-> <<NoBrand, Kraft>>],
      [kind |-> "ok", products |-> <<Kraft, NoBrand, Tata, Amul, NoBrand>>],
      [kind |-> "timeout", products |-> <<>>] }

ConcGlobalReplies ==
    { [kind |-> "ok", products |-> <<>>],
      [kind |-> "ok", products |-> <<Amul>>],
      [kind |-> "ok", products |-> <<Tata, NoBrand>>],
      [kind |-> "network", products |-> <<>>] }

\* the locals of a call that has not started
NotStarted ==
    [pc |-> "idle", query |-> <<>>, limit |-> 0, indian_reply |-> None,
     global_reply |-> None, indian_products |-> <<>>, all_products |-> <<>>,
     result |-> None]

InitConcurrent ==
    /\ pc = "concurrent"
    /\ searches = [i \in SearchIds |-> NotStarted]
    /\ sIn = NoInput
    /\ sOut = None
    /\ Idle
    /\ NoParse
    /\ NoQuery /\ NoTracking

\* search_products(query, limit) is called and awaits the regional request
ConcStart ==
    /\ pc = "concurrent"
    /\ \E i \in SearchIds, q \in ConcQueries, l \in ConcLimits :
        /\ searches[i].pc = "idle"
        /\ searches' = [searches EXCEPT ![i] =
                            [@ EXCEPT !.pc = "await_indian", !.query = q, !.limit = l]]
    /\ UNCHANGED <<pc, queryVars, trackVars>>
    /\ UNCHANGED <<scoreVars, serviceVars, parseVars>>

\* the regional await of call i resumes (lines 166-177)
ConcIndianReply ==
    /\ pc = "concurrent"
    /\ \E i \in SearchIds, reply \in ConcRegionalReplies :
        LET s == searches[i]
            got == search_with_url(reply)
        IN  /\ s.pc = "await_indian"
            /\ searches' = [searches EXCEPT ![i] =
                 IF Len(got.products) >= 5
                   THEN [s EXCEPT !.indian_reply = Some(reply),
                                  !.indian_products = got.products,
                                  !.result = Some(Slice(got.products, s.limit)),
                                  !.pc = "done"]
                   ELSE [s EXCEPT !.indian_reply = Some(reply),
                                  !.indian_products = got.products,
                                  !.pc = "await_global"]]
    /\ UNCHANGED <<pc, queryVars, trackVars>>
    /\ UNCHANGED <<scoreVars, serviceVars, parseVars>>

\* a version of the global step in which indian_products is one variable
\* shared by all calls: the list merged is the one call 1 stored
ConcGlobalReply_SharedRegional ==
    /\ pc = "concurrent"
    /\ \E i \in SearchIds, reply \in ConcGlobalReplies :
        LET s == searches[i]
            got == search_with_url(reply)
            shared == searches[1].indian_products
        IN  /\ s.pc = "await_global"
            /\ searches' = [searches EXCEPT ![i] =
                 [s EXCEPT !.global_reply = Some(reply),
                           !.all_products = shared \o got.products,
                           !.result = Some(MergeAndRank(shared, got.products, s.limit)),
                           !.pc = "done"]]
    /\ UNCHANGED <<pc, queryVars, trackVars>>
    /\ UNCHANGED <<scoreVars, serviceVars, parseVars>>

\* the global await of call i resumes (lines 180-200)
ConcGlobalReply ==
    /\ pc = "concurrent"
    /\ \E i \in SearchIds, reply \in ConcGlobalReplies :
        LET s == searches[i]
            got == search_with_url(reply)
        IN  /\ s.pc = "await_global"
            /\ searches' = [searches EXCEPT ![i] =
                 [s EXCEPT !.global_reply = Some(reply),
                           !.all_products = s.indian_products \o got.products,
                           !.result = Some(MergeAndRank(s.indian_products,
                                                        got.products, s.limit)),
                           !.pc = "done"]]
    /\ UNCHANGED <<pc, queryVars, trackVars>>
    /\ UNCHANGED <<scoreVars, serviceVars, parseVars>>

NextConcurrent ==
    \/ ConcStart
    \/ ConcIndianReply
    \/ ConcGlobalReply

SpecConcurrent == InitConcurrent /\ [][NextConcurrent]_vars

(***************************************************************************)
(* The tracking specification: the routes /food/track over the collection  *)
(* db.food_tracking, requests in flight together.  Each handler awaits one *)
(* operation of the store, and other requests are served while it waits,   *)
(* so a request takes three steps: the handler runs up to its await, the   *)
(* store serves the operation, the handler resumes and answers.            *)
(* food_tracking lists the stored documents in the order of their          *)
(* insertion; req and http are the request answered last and its answer.   *)
(*                                                                         *)
(* The store is not part of the source: insert_one, find, sort, limit,     *)
(* to_list and delete_one below are the persistence collaborator of the    *)
(* specification (insert, find by user, order by timestamp, delete by id)  *)
(* with the limits of the driver's cursor.                                 *)
(***************************************************************************)
MaxEntries == 2        \* track requests of a behaviour
MaxClock == 1          \* latest reading of the clock, in stored milliseconds

HistoryDefaultLimit == 50

UserIds == {"u1", "u2"}

TrackedProducts == {Kraft}

\* the quantity of a track request: omitted, or 150 grams
TrackQuantities == {None, Some(150)}

\* the limit of a history request: omitted, or any int
HistoryLimits == {None, Some(-1), Some(0), Some(1)}

UnknownEntryId == <<"m", "i", "s", "s", "i", "n", "g">>

EntryIds == {uuid4(k) : k \in 1..MaxEntries} \cup {UnknownEntryId}

\* FoodTrackingEntry(**request.dict()): id and timestamp from their factories
FoodTrackingEntry(k, user_id, food_product, quantity, now) ==
    [id |-> uuid4(k),
     user_id |-> user_id,
     food_product |-> food_product,
     quantity |-> IF quantity = None THEN 100 ELSE quantity[1],
     timestamp |-> now]

TrackRequest(op, user_id, entry_id, limit) ==
    [op |-> op, user_id |-> user_id, entry_id |-> entry_id, limit |-> limit]

\* `limit: int = 50`
LimitOrDefault(limit) == IF limit = None THEN HistoryDefaultLimit ELSE limit[1]

InitTracking ==
    /\ pc = "tracking"
    /\ NoTracking
    /\ next_uuid = 1
    /\ raw = <<>>
    /\ parsed = <<>>
    /\ sIn = NoInput
    /\ sOut = None
    /\ Idle
    /\ NoQuery /\ NoSearches

\* insert_one(document): the document is stored after those already there
insert_one(collection, document) == Append(collection, document)

\* find({"user_id": user_id}): the stored documents of the user
find(collection, user_id) ==
    SelectSeq(collection, LAMBDA e : e.user_id = user_id)

\* sort("timestamp", direction): the orders the store may return the
\* documents in, latest first for direction -1 and oldest first for 1;
\* documents of equal timestamp come in any order
sort(docs, direction) ==
    { [i \in 1..Len(docs) |-> docs[f[i]]] :
        f \in { g \in [1..Len(docs) -> 1..Len(docs)] :
                  /\ \A a, b \in 1..Len(docs) : a # b => g[a] # g[b]
                  /\ \A a, b \in 1..Len(docs) :
                        a < b => IF direction = -1
                                   THEN docs[g[a]].timestamp >= docs[g[b]].timestamp
                                   ELSE docs[g[a]].timestamp <= docs[g[b]].timestamp } }

\* limit(n) of a cursor: 0 is no limit, a negative n is the limit -n
limit(docs, n) ==
    IF n = 0 THEN docs
    ELSE SubSeq(docs, 1, Min(IF n < 0 THEN -n ELSE n, Len(docs)))

\* to_list(length) for length >= 0: the first `length` documents (a negative
\* length is refused before anything is read)
to_list(docs, length) == SubSeq(docs, 1, Min(length, Len(docs)))

\* delete_one({"id": entry_id}): the collection without the first match
delete_one(collection, entry_id) ==
    IF \E i \in 1..Len(collection) : collection[i].id = entry_id
      THEN LET i == CHOOSE j \in 1..Len(collection) :
                        /\ collection[j].id = entry_id
                        /\ \A h \in 1..(j - 1) : collection[h].id # entry_id
           IN  [deleted_count |-> 1,
                collection |-> SubSeq(collection, 1, i - 1)
                                 \o SubSeq(collection, i + 1, Len(collection))]
      ELSE [deleted_count |-> 0, collection |-> collection]

\* POST /food/track up to its await: the entry is built with its id and
\* its timestamp (line 386) and insert_one is called (line 387)
TrackBuild ==
    /\ pc = "tracking"
    /\ next_uuid <= MaxEntries
    /\ \E s \in Slots, user_id \in UserIds, food_product \in TrackedProducts,
          quantity \in TrackQuantities, now \in clock..MaxClock :
        /\ inflight[s] = IdleSlot
        /\ inflight' = [inflight EXCEPT ![s] =
               [IdleSlot EXCEPT !.op = "track", !.stage = "called", !.user_id = user_id,
                   !.entry = Some(FoodTrackingEntry(next_uuid, user_id, food_product,
                                                    quantity, now))]]
        /\ clock' = now
    /\ next_uuid' = next_uuid + 1
    /\ UNCHANGED <<pc, food_tracking, raw, parsed, scoreVars, queryVars, searches>>
    /\ UNCHANGED serviceVars

\* the store serves the insert_one of a track request (line 387); the
\* requests in flight are served in any order
TrackInsert ==
    /\ pc = "tracking"
    /\ \E s \in Slots :
        /\ inflight[s].op = "track" /\ inflight[s].stage = "called"
        /\ food_tracking' = insert_one(food_tracking, inflight[s].entry[1])
        /\ inflight' = [inflight EXCEPT ![s].stage = "served"]
    /\ UNCHANGED <<pc, clock, parseVars, scoreVars, queryVars, searches>>
    /\ UNCHANGED serviceVars

\* track_food resumes and answers with the entry it built (line 388)
TrackAnswer ==
    /\ pc = "tracking"
    /\ \E s \in Slots :
        /\ inflight[s].op = "track" /\ inflight[s].stage = "served"
        /\ req' = Some(TrackRequest("track", inflight[s].user_id, <<>>, None))
        /\ http' = Some([status |-> 200, body |-> inflight[s].entry[1]])
        /\ inflight' = [inflight EXCEPT ![s] = IdleSlot]
    /\ UNCHANGED <<pc, food_tracking, clock, parseVars, scoreVars, queryVars, searches>>
    /\ UNCHANGED <<calls, indian_products, indian_reply, global_reply, result>>

\* GET /food/track/{user_id} up to its await (lines 391-393): the cursor is
\* built and to_list(limit) is called, which raises ValueError for a
\* negative length; nothing catches it and the answer is 500
GetCall ==
    /\ pc = "tracking"
    /\ \E s \in Slots, user_id \in UserIds, given \in HistoryLimits :
        /\ inflight[s] = IdleSlot
        /\ IF LimitOrDefault(given) < 0
             THEN /\ req' = Some(TrackRequest("get", user_id, <<>>, given))
                  /\ http' = Some([status |-> 500, body |-> "Internal Server Error"])
                  /\ inflight' = inflight
             ELSE /\ inflight' = [inflight EXCEPT ![s] =
                         [IdleSlot EXCEPT !.op = "get", !.stage = "called",
                             !.user_id = user_id, !.limit = given]]
                  /\ UNCHANGED <<req, http>>
    /\ UNCHANGED <<pc, food_tracking, clock, parseVars, scoreVars, queryVars, searches>>
    /\ UNCHANGED <<calls, indian_products, indian_reply, global_reply, result>>

\* a version of the history route that sorts oldest first
GetRead_OldestFirst ==
    /\ pc = "tracking"
    /\ \E s \in Slots :
        /\ inflight[s].op = "get" /\ inflight[s].stage = "called"
        /\ \E sorted \in sort(find(food_tracking, inflight[s].user_id), 1) :
            inflight' = [inflight EXCEPT ![s].stage = "served",
                ![s].docs = to_list(limit(sorted, LimitOrDefault(inflight[s].limit)),
                                    LimitOrDefault(inflight[s].limit))]
    /\ UNCHANGED <<pc, food_tracking, clock, parseVars, scoreVars, queryVars, searches>>
    /\ UNCHANGED serviceVars

\* the store serves the read of a history request:
\* find({"user_id": user_id}).sort("timestamp", -1).limit(limit).to_list(limit)
\* (line 393)
GetRead ==
    /\ pc = "tracking"
    /\ \E s \in Slots :
        /\ inflight[s].op = "get" /\ inflight[s].stage = "called"
        /\ \E sorted \in sort(find(food_tracking, inflight[s].user_id), -1) :
            inflight' = [inflight EXCEPT ![s].stage = "served",
                ![s].docs = to_list(limit(sorted, LimitOrDefault(inflight[s].limit)),
                                    LimitOrDefault(inflight[s].limit))]
    /\ UNCHANGED <<pc, food_tracking, clock, parseVars, scoreVars, queryVars, searches>>
    /\ UNCHANGED serviceVars

\* get_food_tracking resumes and answers with the documents it was given
\* (line 394)
GetAnswer ==
    /\ pc = "tracking"
    /\ \E s \in Slots :
        /\ inflight[s].op = "get" /\ inflight[s].stage = "served"
        /\ req' = Some(TrackRequest("get", inflight[s].user_id, <<>>, inflight[s].limit))
        /\ http' = Some([status |-> 200, body |-> inflight[s].docs])
        /\ inflight' = [inflight EXCEPT ![s] = IdleSlot]
    /\ UNCHANGED <<pc, food_tracking, clock, parseVars, scoreVars, queryVars, searches>>
    /\ UNCHANGED <<calls, indian_products, indian_reply, global_reply, result>>

\* DELETE /food/track/{entry_id} up to its await: delete_one is called with
\* the id of the path (line 399)
DeleteCall ==
    /\ pc = "tracking"
    /\ \E s \in Slots, entry_id \in EntryIds :
        /\ inflight[s] = IdleSlot
        /\ inflight' = [inflight EXCEPT ![s] =
               [IdleSlot EXCEPT !.op = "delete", !.stage = "called",
                   !.entry_id = entry_id]]
    /\ UNCHANGED <<pc, food_tracking, clock, parseVars, scoreVars, queryVars, searches>>
    /\ UNCHANGED serviceVars

\* the store serves the delete_one of a delete request (line 399) and
\* reports how many documents it removed
DeleteOne ==
    /\ pc = "tracking"
    /\ \E s \in Slots :
        /\ inflight[s].op = "delete" /\ inflight[s].stage = "called"
        /\ food_tracking' = delete_one(food_tracking, inflight[s].entry_id).collection
        /\ inflight' = [inflight EXCEPT ![s].stage = "served",
               ![s].deleted_count =
                   delete_one(food_tracking, inflight[s].entry_id).deleted_count]
    /\ UNCHANGED <<pc, clock, parseVars, scoreVars, queryVars, searches>>
    /\ UNCHANGED serviceVars

\* a version of the delete route that reports success whatever was removed
DeleteAnswer_AlwaysSuccess ==
    /\ pc = "tracking"
    /\ \E s \in Slots :
        /\ inflight[s].op = "delete" /\ inflight[s].stage = "served"
        /\ req' = Some(TrackRequest("delete", "", inflight[s].entry_id, None))
        /\ http' = Some([status |-> 200,
                         body |-> [message |-> "Tracking entry deleted successfully"]])
        /\ inflight' = [inflight EXCEPT ![s] = IdleSlot]
    /\ UNCHANGED <<pc, food_tracking, clock, parseVars, scoreVars, queryVars, searches>>
    /\ UNCHANGED <<calls, indian_products, indian_reply, global_reply, result>>

\* delete_food_tracking resumes: 404 when nothing was removed, the success
\* message otherwise (lines 400-402)
DeleteAnswer ==
    /\ pc = "tracking"
    /\ \E s \in Slots :
        /\ inflight[s].op = "delete" /\ inflight[s].stage = "served"
        /\ req' = Some(TrackRequest("delete", "", inflight[s].entry_id, None))
        /\ IF inflight[s].deleted_count = 0
             THEN http' = Some([status |-> 404,
                                body |-> [detail |-> "Tracking entry not found"]])
             ELSE http' = Some([status |-> 200,
                      body |-> [message |-> "Tracking entry deleted successfully"]])
        /\ inflight' = [inflight EXCEPT ![s] = IdleSlot]
    /\ UNCHANGED <<pc, food_tracking, clock, parseVars, scoreVars, queryVars, searches>>
    /\ UNCHANGED <<calls, indian_products, indian_reply, global_reply, result>>

NextTracking ==
    \/ TrackBuild
    \/ TrackInsert
    \/ TrackAnswer
    \/ GetCall
    \/ GetRead
    \/ GetAnswer
    \/ DeleteCall
    \/ DeleteOne
    \/ DeleteAnswer

SpecTracking == InitTracking /\ [][NextTracking]_vars

(***************************************************************************)
(* Vocabulary of the properties                                            *)
(***************************************************************************)
SearchDone == pc = "done"
BarcodeDone == pc = "bc_done"
TheLimit == req[1].limit[1]

\* the products a source yielded: those of its reply, none when it failed
Yielded(reply) ==
    IF reply # None /\ reply[1].kind = "ok" THEN reply[1].products ELSE <<>>

\* the product a source yielded for a barcode, None when absent or failed
YieldedProduct(reply) ==
    IF reply # None /\ reply[1].kind = "ok" THEN reply[1].product ELSE None

Failed(reply) == reply # None /\ reply[1].kind \in FailureKinds

GlobalConsulted == \E k \in 1..Len(calls) : calls[k].url = BASE_URL

Ids(list) == {list[k].id : k \in 1..Len(list)}
Occurrences(list, id) == Cardinality({k \in 1..Len(list) : list[k].id = id})

\* the brands of the products of the model that contain a preferred name,
\* case-insensitively: "Amul" (amul) and "TATA" (tata)
Preferred(p) == p \in {Amul, Tata}

RECURSIVE SelectSeq2(_, _)
SelectSeq2(list, keep) ==
    IF list = <<>> THEN <<>>
    ELSE IF keep[Head(list)]
           THEN <<Head(list)>> \o SelectSeq2(Tail(list), keep)
           ELSE SelectSeq2(Tail(list), keep)

PreferredOf(list) == SelectSeq2(list, [p \in Products |-> Preferred(p)])
OthersOf(list) == SelectSeq2(list, [p \in Products |-> ~Preferred(p)])

\* a is b with some elements left out
RECURSIVE IsSubsequence(_, _)
IsSubsequence(a, b) ==
    IF a = <<>> THEN TRUE
    ELSE IF b = <<>> THEN FALSE
    ELSE IF Head(a) = Head(b) THEN IsSubsequence(Tail(a), Tail(b))
    ELSE IsSubsequence(a, Tail(b))

\* every preferred product stands before every other product
PreferredFirst(list) ==
    \A i, j \in 1..Len(list) :
        (Preferred(list[i]) /\ ~Preferred(list[j])) => i < j

\* the first n elements, none for n <= 0
Truncate(list, n) == SubSeq(list, 1, Min(Max(n, 0), Len(list)))

\* each id's first record, in first-seen order
RECURSIVE DedupFirstSeen(_, _)
DedupFirstSeen(list, seen) ==
    IF list = <<>> THEN <<>>
    ELSE IF Head(list).id \in seen THEN DedupFirstSeen(Tail(list), seen)
    ELSE <<Head(list)>> \o DedupFirstSeen(Tail(list), seen \cup {Head(list).id})

(***************************************************************************)
(* C1: the rating returned by calculate_health_score is the band of the    *)
(* score it returns (>= 80 Excellent, >= 65 Good, >= 50 Moderate,          *)
(* >= 35 Poor, else Very Poor), for every input.                           *)
(* Fails: the rating is taken before round(score, 1); energy 500.4 kcal    *)
(* gives 79.96, rated Good, and is returned as 80.0.                       *)
(***************************************************************************)
C1_RatingIsBandOfReturnedScore ==
    sOut # None =>
        sOut[1].rating =
            (IF sOut[1].score >= 8000 THEN "Excellent"
             ELSE IF sOut[1].score >= 6500 THEN "Good"
             ELSE IF sOut[1].score >= 5000 THEN "Moderate"
             ELSE IF sOut[1].score >= 3500 THEN "Poor"
             ELSE "Very Poor")

(***************************************************************************)
(* C2: the score returned by calculate_health_score lies in [0, 100] for   *)
(* every input, also when every penalty is at its cap (0, not -70) and     *)
(* when the bonuses exceed the baseline (100, not 125).                    *)
(***************************************************************************)
C2_ScoreWithinBounds ==
    sOut # None => (sOut[1].score >= 0 /\ sOut[1].score <= 10000)

\* every penalty at its cap: 100 - 30 - 25 - 20 - 20 - 35 - 25 - 15 = -70
C2_Witness_AllPenaltiesCapped ==
    /\ sOut # None
    /\ RawScore(sIn.nutrition, sIn.grade, sIn.nova, sIn.additives) = -7000
    /\ sOut[1].score = 0

(***************************************************************************)
(* C3: search_products never returns more than `limit` items, for every    *)
(* limit a request can carry.                                              *)
(* Fails: a negative limit is not rejected, and list[:limit] then drops    *)
(* items from the end instead of keeping at most `limit`.                  *)
(***************************************************************************)
C3_AtMostLimitItems ==
    (SearchDone /\ req[1].limit # None) => Len(result[1]) <= TheLimit

(***************************************************************************)
(* C4 as claimed: an id that occurs more than once in the regional and     *)
(* global results occurs exactly once in the list returned, on every path  *)
(* (stated here for the requests with a limit >= 0).                       *)
(***************************************************************************)
C4_RepeatedIdExactlyOnce ==
    (SearchDone /\ req[1].limit # None /\ TheLimit >= 0) =>
        LET all == Yielded(indian_reply) \o Yielded(global_reply)
        IN  \A id \in Ids(all) :
                Occurrences(all, id) > 1 => Occurrences(result[1], id) = 1

(***************************************************************************)
(* C4 amended: when the global source was consulted, no id occurs more     *)
(* than once in the list returned, and every id of the two results occurs  *)
(* exactly once when the distinct ids are no more than `limit`.  When the  *)
(* regional source alone returns 5 or more records, the list returned is   *)
(* the regional list sliced [:limit] as it came (its first `limit`         *)
(* records, for a negative limit all but its last -limit), with no         *)
(* deduplication; a request without a limit gets the empty list.           *)
(***************************************************************************)
C4_MergedIdsAtMostOnce ==
    SearchDone =>
        LET all == Yielded(indian_reply) \o Yielded(global_reply)
        IN  IF GlobalConsulted
              THEN /\ \A id \in Ids(result[1]) : Occurrences(result[1], id) = 1
                   /\ Ids(result[1]) \subseteq Ids(all)
                   /\ Cardinality(Ids(all)) <= TheLimit => Ids(result[1]) = Ids(all)
              ELSE IF req[1].limit = None THEN result[1] = <<>>
              ELSE result[1] = Slice(Yielded(indian_reply), TheLimit)

\* an id in both sources is returned once
C4_Witness_DuplicateAcrossSources ==
    /\ SearchDone /\ GlobalConsulted
    /\ Yielded(indian_reply) = <<NoBrand, Kraft>>
    /\ Yielded(global_reply) = <<Kraft, NoBrand>>
    /\ result[1] = <<NoBrand, Kraft>>

(***************************************************************************)
(* C5 as claimed: in every list returned, the products with a preferred    *)
(* brand stand before all the others, and each of the two groups is in     *)
(* the order of the source results (stated here for the requests with a   *)
(* limit >= 0).                                                            *)
(***************************************************************************)
C5_PreferredBrandsFirst ==
    (SearchDone /\ req[1].limit # None /\ TheLimit >= 0) =>
        LET all == Yielded(indian_reply) \o Yielded(global_reply)
        IN  /\ PreferredFirst(result[1])
            /\ IsSubsequence(PreferredOf(result[1]), all)
            /\ IsSubsequence(OthersOf(result[1]), all)

(***************************************************************************)
(* C5 amended: when the global source was consulted, the products with a   *)
(* preferred brand stand before all the others and each of the two groups  *)
(* is in the order of the source results; when the regional source alone   *)
(* returns 5 or more records the list is in the regional order, not        *)
(* reordered by brand.                                                     *)
(***************************************************************************)
C5_PreferredBrandsFirstWhenMerged ==
    SearchDone =>
        LET all == Yielded(indian_reply) \o Yielded(global_reply)
        IN  IF GlobalConsulted
              THEN /\ PreferredFirst(result[1])
                   /\ IsSubsequence(PreferredOf(result[1]), all)
                   /\ IsSubsequence(OthersOf(result[1]), all)
              ELSE IsSubsequence(result[1], all)

\* an upper-case preferred brand from the global source overtakes the
\* regional products
C5_Witness_GlobalPreferredMovesUp ==
    /\ SearchDone /\ GlobalConsulted
    /\ Yielded(indian_reply) = <<Kraft, NoBrand>>
    /\ Yielded(global_reply) = <<Tata>>
    /\ result[1] = <<Tata, Kraft, NoBrand>>

(***************************************************************************)
(* C6: the regional source is queried first, for min(limit, 15) records;   *)
(* if it returns 5 or more, the global source is never queried and the     *)
(* result is the regional list truncated to `limit`.                       *)
(* Fails for a negative limit: the result is the list without its last     *)
(* -limit records.                                                         *)
(***************************************************************************)
C6_RegionalFirstThenDirectReturn ==
    /\ (calls # <<>> /\ calls[1].path = "search") =>
          (calls[1].url = INDIA_BASE_URL /\ calls[1].page_size = Min(TheLimit, 15))
    /\ (SearchDone /\ req[1].limit # None /\ Len(Yielded(indian_reply)) >= 5) =>
          (~GlobalConsulted /\ result[1] = Truncate(Yielded(indian_reply), TheLimit))

(***************************************************************************)
(* C7: when the regional source returns fewer than 5 records the global    *)
(* source is queried for `limit` records and the result is the             *)
(* concatenation regional-then-global, deduplicated by id (first seen),    *)
(* preferred brands first, cut to at most `limit` items.                   *)
(* Fails: a later duplicate with a preferred brand replaces the first      *)
(* record of its id, and a negative limit is not a cut to `limit`.         *)
(***************************************************************************)
C7_FallbackMergesDedupsRanksCuts ==
    (SearchDone /\ req[1].limit # None /\ Len(Yielded(indian_reply)) < 5) =>
        LET all == Yielded(indian_reply) \o Yielded(global_reply)
            unique == DedupFirstSeen(all, {})
        IN  /\ Len(calls) = 2
            /\ calls[2].url = BASE_URL /\ calls[2].page_size = TheLimit
            /\ result[1] = Truncate(PreferredOf(unique) \o OthersOf(unique), TheLimit)

(***************************************************************************)
(* C8: an upstream failure in either source becomes an empty list / None   *)
(* in the source client and never an exception: search_products always     *)
(* returns a list, get_product_by_barcode a product or None, and a failed  *)
(* regional query is treated like an empty regional result, so the global  *)
(* source is still consulted.                                              *)
(***************************************************************************)
C8_FailuresAbsorbed ==
    /\ SearchDone =>
          /\ result # None /\ result[1] \in Seq(Products)
          /\ http[1].status = 200
          /\ Failed(indian_reply) =>
                /\ GlobalConsulted /\ global_reply # None
                /\ calls[2] = SearchCall(BASE_URL, req[1].query, TheLimit)
                /\ result[1] = MergeAndRank(<<>>, Yielded(global_reply), TheLimit)
    /\ BarcodeDone =>
          /\ result # None /\ (result[1] = None \/ result[1][1] \in Products)
          /\ http[1].status \in {200, 404}
          /\ Failed(indian_reply) =>
                /\ GlobalConsulted /\ global_reply # None
                /\ result[1] = YieldedProduct(global_reply)

\* the regional query times out and the global results are returned
C8_Witness_RegionalTimeoutGlobalUsed ==
    /\ SearchDone
    /\ Failed(indian_reply) /\ indian_reply[1].kind = "timeout"
    /\ Yielded(global_reply) = <<Amul, NoBrand>>
    /\ req[1].limit = Some(DefaultLimit)
    /\ result[1] = <<Amul, NoBrand>>

(***************************************************************************)
(* C9: get_product_by_barcode queries the regional source first; a         *)
(* product from it is returned and the global source is never queried;     *)
(* only when the regional source yields nothing (absent or failed) is the  *)
(* global source queried, and its result is returned unchanged.            *)
(***************************************************************************)
C9_BarcodeRegionalFirst ==
    /\ (calls # <<>> /\ calls[1].path = "product") =>
          calls[1] = ProductCall(INDIA_BASE_URL, req[1].barcode)
    /\ BarcodeDone =>
          IF YieldedProduct(indian_reply) # None
            THEN /\ result[1] = YieldedProduct(indian_reply)
                 /\ ~GlobalConsulted /\ global_reply = None
            ELSE /\ calls = <<ProductCall(INDIA_BASE_URL, req[1].barcode),
                              ProductCall(BASE_URL, req[1].barcode)>>
                 /\ result[1] = YieldedProduct(global_reply)

\* the regional source has the product: one request, that product
C9_Witness_RegionalHit ==
    /\ BarcodeDone
    /\ YieldedProduct(indian_reply) = Some(Amul)
    /\ result[1] = Some(Amul)
    /\ Len(calls) = 1

(***************************************************************************)
(* C10: a barcode lookup for which neither source yields a record (not     *)
(* found or failed) is answered 404, never as a success; when the regional *)
(* source is absent and the global source has the record, that record is   *)
(* returned.                                                               *)
(***************************************************************************)
C10_NotFoundIs404 ==
    BarcodeDone =>
        /\ (YieldedProduct(indian_reply) = None /\ YieldedProduct(global_reply) = None)
              => http[1].status = 404
        /\ (YieldedProduct(indian_reply) = None /\ YieldedProduct(global_reply) # None)
              => http[1] = [status |-> 200, body |-> YieldedProduct(global_reply)[1]]
        /\ http[1].status = 200 => http[1].body \in Products

\* absent in the regional source, failed in the global one: 404
C10_Witness_BothAbsent ==
    /\ BarcodeDone
    /\ indian_reply = Some([kind |-> "ok", product |-> None])
    /\ Failed(global_reply) /\ global_reply[1].kind = "status"
    /\ http[1].status = 404

(***************************************************************************)
(* C11: a search whose limit is negative is rejected before any upstream   *)
(* call: no regional or global query is ever dispatched for it.            *)
(* Fails: FoodSearchRequest.limit is an unconstrained Optional[int] and    *)
(* the route passes it straight to search_products, which queries the      *)
(* regional source with page_size = min(limit, 15) = limit.                *)
(***************************************************************************)
C11_NegativeLimitNeverDispatched ==
    (/\ pc \in {"await_indian", "await_global", "done"}
     /\ req[1].limit # None
     /\ TheLimit < 0)
        => calls = <<>>

(***************************************************************************)
(* C13: the score returned is the reference value                          *)
(*   clamp(100 - energy - sugar - sodiumOrSalt - satFat + fiber + protein  *)
(*         + gradeAdj + novaAdj - additives)                               *)
(* rounded to one decimal, each term capped on its own (30, 25, 20, 20,    *)
(* 15, 10, 15) before summing, absent inputs contributing nothing and the  *)
(* grade looked up case-insensitively; {energy 500, sugars 40} gives       *)
(* 55 / Moderate and {grade e, nova 4, 5 additives} gives 30 / Very Poor.  *)
(***************************************************************************)
\* one capped term of the reference: rate * (x - threshold), at most cap,
\* nothing for an absent value or one not above the threshold
CappedTerm(x, threshold, rate, cap) ==
    IF x = None \/ x[1] <= threshold THEN 0
    ELSE IF rate * (x[1] - threshold) > cap THEN cap
    ELSE rate * (x[1] - threshold)

\* the reference's grade table, on a one-letter grade of either case
ReferenceGradeAdj(grade) ==
    IF grade = None THEN 0
    ELSE IF grade[1] \in {<<"b">>, <<"B">>} THEN -500
    ELSE IF grade[1] \in {<<"c">>, <<"C">>} THEN -1500
    ELSE IF grade[1] \in {<<"d">>, <<"D">>} THEN -2500
    ELSE IF grade[1] \in {<<"e">>, <<"E">>} THEN -3500
    ELSE 0

ReferenceNovaAdj(nova) ==
    IF nova = None THEN 0
    ELSE IF nova[1] = 2 THEN -500
    ELSE IF nova[1] = 3 THEN -1500
    ELSE IF nova[1] = 4 THEN -2500
    ELSE 0

ReferenceSodiumOrSalt(n) ==
    IF CappedTerm(n.sodium, 100, 15, 2000) > 0
      THEN CappedTerm(n.sodium, 100, 15, 2000)
      ELSE CappedTerm(n.salt, 250, 6, 2000)

ReferenceNutrition(nutrition) ==
    IF nutrition = None THEN 0
    ELSE LET n == nutrition[1] IN
         - CappedTerm(n.energy, 3000, 1, 3000)
         - CappedTerm(n.sugars, 1000, 2, 2500)
         - ReferenceSodiumOrSalt(n)
         - CappedTerm(n.saturated_fat, 500, 2, 2000)
         + CappedTerm(n.fiber, 300, 3, 1500)
         + CappedTerm(n.proteins, 1000, 1, 1000)

ReferenceAdditives(additives) ==
    IF additives = None THEN 0
    ELSE IF 200 * Len(additives[1]) > 1500 THEN 1500
    ELSE 200 * Len(additives[1])

\* the tenths of a point nearest to a value: one, or two for a value that
\* ends in 5 centipoints
NearestTenths(x) == {Round1(x, -1), Round1(x, 1)}

\* the reference value before it is rounded
ReferenceScore(i) ==
    LET sum == 10000 + ReferenceNutrition(i.nutrition)
                 + ReferenceGradeAdj(i.grade) + ReferenceNovaAdj(i.nova)
                 - ReferenceAdditives(i.additives)
        clamped == IF sum < 0 THEN 0 ELSE IF sum > 10000 THEN 10000 ELSE sum
    IN  clamped

NoNutrients ==
    [energy |-> None, fat |-> None, saturated_fat |-> None, carbohydrates |-> None,
     sugars |-> None, fiber |-> None, proteins |-> None, salt |-> None,
     sodium |-> None]

\* the two worked examples of the specification
Energy500Sugars40 ==
    [nutrition |-> Some([NoNutrients EXCEPT !.energy = Some(5000),
                                            !.sugars = Some(4000)]),
     grade |-> None, nova |-> None, additives |-> None]

GradeENova4FiveAdditives ==
    [nutrition |-> None, grade |-> Some(<<"e">>), nova |-> Some(4),
     additives |-> Some([i \in 1..5 |-> "e330"])]

C13_ScoreEqualsReference ==
    sOut # None =>
        /\ sOut[1].score \in NearestTenths(ReferenceScore(sIn))
        /\ sIn = Energy500Sugars40
             => sOut[1] = [score |-> 5500, rating |-> "Moderate"]
        /\ sIn = GradeENova4FiveAdditives
             => sOut[1] = [score |-> 3000, rating |-> "Very Poor"]

\* the energy, fiber, protein and additive terms at their caps and an
\* upper-case grade: 100 - 30 + 15 + 10 - 35 - 15 = 45
C13_Witness_CapsAndUpperCaseGrade ==
    /\ sOut # None
    /\ sIn.nutrition = Some([NoNutrients EXCEPT !.energy = Some(7000),
                                                !.fiber = Some(800),
                                                !.proteins = Some(2000)])
    /\ sIn.grade = Some(<<"E">>)
    /\ sIn.nova = None
    /\ sIn.additives # None /\ Len(sIn.additives[1]) = 8
    /\ sOut[1] = [score |-> 4500, rating |-> "Poor"]

(***************************************************************************)
(* C14: at most one of the sodium and the salt penalty is applied: with    *)
(* sodium present and > 1 only min(20, (sodium-1)*15) is subtracted,       *)
(* whatever the salt; min(20, (salt-2.5)*6) is subtracted only when the    *)
(* sodium test fails (absent or <= 1) and salt > 2.5.                      *)
(***************************************************************************)
\* the penalty the claim expects for a sodium and a salt value
OneSodiumOrSaltPenalty(sodium, salt) ==
    IF sodium # None /\ sodium[1] > 100
      THEN Min(2000, (sodium[1] - 100) * 15)
    ELSE IF salt # None /\ salt[1] > 250
      THEN Min(2000, (salt[1] - 250) * 6)
    ELSE 0

\* the input with its sodium and its salt removed
WithoutSodiumAndSalt(i) ==
    [i EXCEPT !.nutrition = Some([i.nutrition[1] EXCEPT !.sodium = None,
                                                        !.salt = None])]

C14_SodiumOrSaltNeverBoth ==
    (sOut # None /\ sIn.nutrition # None) =>
        LET n == sIn.nutrition[1]
            w == WithoutSodiumAndSalt(sIn)
            rest == RawScore(w.nutrition, w.grade, w.nova, w.additives)
        IN  sOut[1].score \in
                NearestTenths(Clamp(rest - OneSodiumOrSaltPenalty(n.sodium, n.salt)))

\* sodium 3 g and salt 5 g and nothing else: 100 - 20, not 100 - 20 - 15
C14_Witness_SodiumAndSaltBothHigh ==
    /\ sOut # None
    /\ sIn = [nutrition |-> Some([NoNutrients EXCEPT !.sodium = Some(300),
                                                     !.salt = Some(500)]),
              grade |-> None, nova |-> None, additives |-> None]
    /\ sOut[1].score = 8000

(***************************************************************************)
(* C16: scoring is monotonic in sugar: of two inputs that differ only in   *)
(* sugars, both above 10 g, the one with more sugar never gets the higher  *)
(* score.  Two sugar values with the same penalty (both at the cap) give   *)
(* the same arithmetic and so the same score; they are not compared here.  *)
(***************************************************************************)
\* the scores the scored input can get with its sugars replaced
ScoresWithSugars(s) ==
    LET n == Some([sIn.nutrition[1] EXCEPT !.sugars = s])
    IN  { calculate_health_score(n, sIn.grade, sIn.nova, sIn.additives, fp).score :
            fp \in FloatDeviations(n, sIn.grade, sIn.nova, sIn.additives) }

\* the sugar penalty of a value above the threshold
SugarPenalty(s) == Min(2500, (s[1] - 1000) * 2)

C16_MoreSugarNeverHigherScore ==
    (sOut # None /\ sIn.nutrition # None) =>
        \A more \in SugarValues :
            (/\ sIn.nutrition[1].sugars # None
             /\ sIn.nutrition[1].sugars[1] > 1000
             /\ more # None
             /\ more[1] > sIn.nutrition[1].sugars[1])
                => \/ SugarPenalty(more) = SugarPenalty(sIn.nutrition[1].sugars)
                   \/ \A t \in ScoresWithSugars(more) : t <= sOut[1].score

\* 12.5 g scored, 40 g compared: 95 against 75
C16_Witness_SugarRaised ==
    /\ sOut # None
    /\ sIn = [nutrition |-> Some([NoNutrients EXCEPT !.sugars = Some(1250)]),
              grade |-> None, nova |-> None, additives |-> None]
    /\ sOut[1].score = 9500
    /\ ScoresWithSugars(Some(4000)) = {7500}

(***************************************************************************)
(* C12: _parse_product never fails on a raw record with missing or         *)
(* malformed fields: for every raw record (fields absent, null, empty or   *)
(* of the wrong type) it returns a Product, each such field at its         *)
(* documented default, rather than raising.                                *)
(* Fails: a null code or product_name is handed to a field declared `str`, *)
(* a null nutriments or additives_tags is used as an object / a list, a    *)
(* grade that is not a string is lowered, a nova_group that is not a       *)
(* number is handed to an int field.  Each raises, and the caller drops    *)
(* the whole upstream body.                                                *)
(***************************************************************************)
C12_ParseNeverRaises ==
    /\ pc # "parse_failed"
    /\ pc = "parse_done" =>
         \A i \in 1..Len(parsed) :
             raw[i].product_name.kind \in {"absent", "null"}
                 => parsed[i].product_name = unknown_product

(***************************************************************************)
(* C15: every Product produced by _parse_product has health_score and      *)
(* health_rating populated (never null); with nutrition, grade, NOVA group *)
(* and additives all absent the score is the base score 100, rated         *)
(* Excellent.                                                              *)
(***************************************************************************)
\* the record carries nothing the score looks at
NothingToScore(r) ==
    /\ \/ r.nutriments.kind = "absent"
       \/ r.nutriments = Obj(<<>>)
    /\ r.nutriscore_grade.kind \in {"absent", "null"}
    /\ r.nova_group.kind \in {"absent", "null"}
    /\ \/ r.additives_tags.kind = "absent"
       \/ r.additives_tags = List(<<>>)

C15_ScoreAlwaysPopulated ==
    \A i \in 1..Len(parsed) :
        /\ parsed[i].health_score # None
        /\ parsed[i].health_rating # None
        /\ NothingToScore(raw[i])
             => /\ parsed[i].health_score = Some(10000)
                /\ parsed[i].health_rating = Some("Excellent")

\* a record with a code and a name only
C15_Witness_BaseScoreAttached ==
    /\ pc = "parse_done"
    /\ raw = <<PlainRecord>>
    /\ parsed[1].health_score = Some(10000)
    /\ parsed[1].health_rating = Some("Excellent")

(***************************************************************************)
(* C18: the Product id is the upstream code when that code is non-empty;   *)
(* when the code is empty (absent, null or the empty string) a fresh       *)
(* unique id is generated, so two records with an empty code never share   *)
(* an id.                                                                  *)
(* Fails: dict.get falls back to the generated id only when the key is     *)
(* absent.  An empty-string code becomes the id "", shared by every such   *)
(* record; a null code is handed to the `str` field and raises.            *)
(***************************************************************************)
EmptyCode(r) ==
    \/ r.code.kind \in {"absent", "null"}
    \/ r.code = Str(<<>>)

C18_IdIsCodeOrFresh ==
    pc = "parse_done" =>
        \A i \in 1..Len(parsed) :
            IF EmptyCode(raw[i])
              THEN /\ parsed[i].id # <<>>
                   /\ \A j \in 1..Len(parsed) :
                          j # i => parsed[j].id # parsed[i].id
              ELSE parsed[i].id = raw[i].code.s

(***************************************************************************)
(* C19: the Product additives are exactly the upstream tags that start     *)
(* with "en:", in order and with duplicates, each with only that leading   *)
(* prefix removed and the rest of the tag unchanged; tags without the      *)
(* prefix are dropped.                                                     *)
(* Fails: additive.replace("en:", "") removes every occurrence of "en:"    *)
(* in the tag, not only the leading one: "en:en:e330" becomes "e330" and   *)
(* "en:green:s" becomes "gres".                                            *)
(***************************************************************************)
\* the tags that start with "en:", without their first three characters
RECURSIVE LeadingPrefixStripped(_)
LeadingPrefixStripped(tags) ==
    IF tags = <<>> THEN <<>>
    ELSE IF Len(Head(tags).s) >= 3 /\ SubSeq(Head(tags).s, 1, 3) = <<"e", "n", ":">>
      THEN <<SubSeq(Head(tags).s, 4, Len(Head(tags).s))>>
               \o LeadingPrefixStripped(Tail(tags))
      ELSE LeadingPrefixStripped(Tail(tags))

C19_OnlyLeadingPrefixRemoved ==
    \A i \in 1..Len(parsed) :
        (/\ raw[i].additives_tags.kind = "list"
         /\ \A t \in 1..Len(raw[i].additives_tags.l) :
                raw[i].additives_tags.l[t].kind = "str")
            => parsed[i].additives = Some(LeadingPrefixStripped(raw[i].additives_tags.l))

(***************************************************************************)
(* C17: the dedup-and-rank step of search is idempotent: applying the      *)
(* two-pass brand-preference ranking, with the same limit, to a list that  *)
(* is already its output yields the same list, element for element.        *)
(* Fails for a negative limit, which is not rejected: pass 2 adds nothing  *)
(* and [:limit] drops the last preferred item each time it is applied.     *)
(***************************************************************************)
C17_RankingIdempotent ==
    (SearchDone /\ req[1].limit # None /\ GlobalConsulted) =>
        MergeAndRank(result[1], <<>>, TheLimit) = result[1]

(***************************************************************************)
(* C20: the service exposes a categories operation, GET /food/categories,  *)
(* that returns the same fixed, non-empty list of vocabulary terms on      *)
(* every call (with dal, rice, atta, ghee, masala, namkeen), whatever the  *)
(* upstream state and without any upstream query.                          *)
(* Fails: api_router has no route for /food/categories; nothing calls      *)
(* search_indian_categories and the request is answered 404.               *)
(***************************************************************************)
C20_CategoriesServed ==
    (pc = "get_done" /\ req[1].path = <<"food", "categories">>) =>
        /\ http[1].status = 200
        /\ http[1].body = search_indian_categories
        /\ {"dal", "rice", "atta", "ghee", "masala", "namkeen"}
               \subseteq {http[1].body[k] : k \in 1..Len(http[1].body)}
        /\ calls = <<>>

(***************************************************************************)
(* C23: deduplication preserves first-seen order: for every id in the      *)
(* search output, the record emitted for that id is its first occurrence   *)
(* in the regional-then-global concatenation, even when that occurrence    *)
(* has a non-preferred or missing brand and a later duplicate of the same  *)
(* id has a preferred brand.                                               *)
(* Fails: pass 1 visits the preferred-brand records before pass 2 visits   *)
(* the others, so a later preferred duplicate is emitted and the first     *)
(* record of its id is dropped.  Stated for limits >= 0.                   *)
(***************************************************************************)
\* the first record of the list that has the id
FirstWithId(list, id) ==
    list[CHOOSE k \in 1..Len(list) :
             /\ list[k].id = id
             /\ \A j \in 1..(k - 1) : list[j].id # id]

C23_FirstOccurrenceEmitted ==
    (SearchDone /\ req[1].limit # None /\ TheLimit >= 0 /\ GlobalConsulted) =>
        \A k \in 1..Len(result[1]) :
            result[1][k] =
                FirstWithId(indian_products \o Yielded(global_reply), result[1][k].id)

(***************************************************************************)
(* C24: no retries: during one search each of the regional and the global  *)
(* source is queried at most once (at most two upstream requests), and     *)
(* during one barcode lookup each source is queried at most once, whatever *)
(* the outcomes (empty, absent or failure) of those queries.               *)
(***************************************************************************)
CallsTo(url) == Cardinality({k \in 1..Len(calls) : calls[k].url = url})

C24_EachSourceAtMostOnce ==
    /\ CallsTo(INDIA_BASE_URL) <= 1
    /\ CallsTo(BASE_URL) <= 1
    /\ Len(calls) <= 2
    /\ \A k \in 1..Len(calls) : calls[k].url \in {INDIA_BASE_URL, BASE_URL}

\* a search whose two requests both failed, and which has ended
C24_Witness_BothFailedNoRetry ==
    /\ SearchDone
    /\ Failed(indian_reply) /\ indian_reply[1].kind = "timeout"
    /\ Failed(global_reply) /\ global_reply[1].kind = "network"
    /\ Len(calls) = 2
    /\ result = Some(<<>>)

(***************************************************************************)
(* C27: normalization failure is all-or-nothing per source: when one       *)
(* record of a source's search response makes _parse_product raise, that   *)
(* source contributes an empty list (its well-formed records are           *)
(* discarded), the failure is not propagated, and the search proceeds as   *)
(* if the source had returned nothing: a regional response with one bad    *)
(* record triggers the global fallback.                                    *)
(***************************************************************************)
\* the reply had a record on which _parse_product raised
ParseFailed(reply) == reply # None /\ reply[1].kind = "parse"

InSearch == pc \in {"await_indian", "await_global", "done"}

C27_BadRecordEmptiesItsSource ==
    /\ (InSearch /\ ParseFailed(indian_reply)) =>
         /\ indian_products = <<>>
         /\ GlobalConsulted
         /\ pc \in {"await_global", "done"}
    /\ (SearchDone /\ (ParseFailed(indian_reply) \/ ParseFailed(global_reply))) =>
         /\ http = Some([status |-> 200, body |-> result[1]])
         /\ result[1] = MergeAndRank(Yielded(indian_reply), Yielded(global_reply),
                                     TheLimit)

\* a regional body with a well-formed Amul record and a bad one, a global
\* body with one record: only the global record is returned
C27_Witness_RegionalBadRecordFallsBack ==
    /\ SearchDone
    /\ indian_reply = Some([kind |-> "parse", products |-> <<Amul>>])
    /\ global_reply = Some([kind |-> "ok", products |-> <<NoBrand>>])
    /\ TheLimit = 3
    /\ Len(calls) = 2
    /\ result = Some(<<NoBrand>>)

(***************************************************************************)
(* C26: query rewriting is first-match-wins over the ordered synonym       *)
(* table: a query whose lower-cased form contains no table term is         *)
(* returned unmodified; otherwise the result is the phrase of the first    *)
(* entry, in table order (atta, dal, chawal, ghee, masala, namkeen,        *)
(* mithai, chai, lassi, papad, pickle), whose term is a substring of the   *)
(* query, even when later entries match too; and the same rewritten query  *)
(* is sent to the regional and to the global source.                       *)
(***************************************************************************)
\* the table of the claim, in its order
SynonymTable ==
    << <<"atta", <<"w","h","e","a","t"," ","f","l","o","u","r"," ","a","t","t","a">> >>,
       <<"dal", <<"l","e","n","t","i","l","s"," ","d","a","l">> >>,
       <<"chawal", <<"r","i","c","e"," ","b","a","s","m","a","t","i">> >>,
       <<"ghee", <<"c","l","a","r","i","f","i","e","d"," ","b","u","t","t","e","r"," ","g","h","e","e">> >>,
       <<"masala", <<"s","p","i","c","e"," ","m","a","s","a","l","a"," ","m","i","x">> >>,
       <<"namkeen", <<"s","a","v","o","r","y"," ","s","n","a","c","k","s"," ","n","a","m","k","e","e","n">> >>,
       <<"mithai", <<"i","n","d","i","a","n"," ","s","w","e","e","t","s">> >>,
       <<"chai", <<"t","e","a"," ","c","h","a","i">> >>,
       <<"lassi", <<"y","o","g","u","r","t"," ","d","r","i","n","k"," ","l","a","s","s","i">> >>,
       <<"papad", <<"p","a","p","a","d","u","m"," ","c","r","i","s","p","y">> >>,
       <<"pickle", <<"i","n","d","i","a","n"," ","p","i","c","k","l","e"," ","a","c","h","a","r">> >> >>

\* the characters of the table terms
TermChars(t) ==
    CASE t = "atta" -> <<"a","t","t","a">>
      [] t = "dal" -> <<"d","a","l">>
      [] t = "chawal" -> <<"c","h","a","w","a","l">>
      [] t = "ghee" -> <<"g","h","e","e">>
      [] t = "masala" -> <<"m","a","s","a","l","a">>
      [] t = "namkeen" -> <<"n","a","m","k","e","e","n">>
      [] t = "mithai" -> <<"m","i","t","h","a","i">>
      [] t = "chai" -> <<"c","h","a","i">>
      [] t = "lassi" -> <<"l","a","s","s","i">>
      [] t = "papad" -> <<"p","a","p","a","d">>
      [] t = "pickle" -> <<"p","i","c","k","l","e">>

\* the term occurs in the query, whatever the case of the query's letters
OccursIn(term, query) ==
    \E i \in 1..(Len(query) - Len(term) + 1) :
        \A j \in 1..Len(term) : LowerChar(query[i + j - 1]) = term[j]

\* scan of the table from entry k on: the first entry that matches wins
RECURSIVE FirstMatchFrom(_, _)
FirstMatchFrom(k, query) ==
    IF k > Len(SynonymTable) THEN query
    ELSE IF OccursIn(TermChars(SynonymTable[k][1]), query) THEN SynonymTable[k][2]
    ELSE FirstMatchFrom(k + 1, query)

C26_FirstMatchWins ==
    qOut # None =>
        /\ qOut[1].regional = Some(FirstMatchFrom(1, qIn[1]))
        /\ qOut[1].global # None => qOut[1].global = qOut[1].regional

\* "CHAWAL dal": chawal comes first in the query, dal first in the table
C26_Witness_TableOrderDecides ==
    /\ qOut # None
    /\ qIn = Some(<<"C","H","A","W","A","L"," ","d","a","l">>)
    /\ qOut[1].regional = Some(<<"l","e","n","t","i","l","s"," ","d","a","l">>)
    /\ qOut[1].global = Some(<<"l","e","n","t","i","l","s"," ","d","a","l">>)

(***************************************************************************)
(* C25: in the merged list built when both sources are consulted, every    *)
(* regional record precedes every global record, however concurrent        *)
(* searches interleave; concurrent searches share no mutable state, so the *)
(* result of each depends only on its own limit and the upstream responses *)
(* it received.                                                            *)
(***************************************************************************)
C25_RegionalBeforeGlobalPerSearch ==
    \A i \in DOMAIN searches :
        LET s == searches[i] IN
        s.pc = "done" =>
            IF s.global_reply # None
              THEN /\ Len(s.all_products)
                        = Len(Yielded(s.indian_reply)) + Len(Yielded(s.global_reply))
                   /\ \A a \in 1..Len(Yielded(s.indian_reply)) :
                          s.all_products[a] = Yielded(s.indian_reply)[a]
                   /\ \A b \in 1..Len(Yielded(s.global_reply)) :
                          s.all_products[Len(Yielded(s.indian_reply)) + b]
                              = Yielded(s.global_reply)[b]
                   /\ s.result = Some(MergeAndRank(Yielded(s.indian_reply),
                                                   Yielded(s.global_reply), s.limit))
              ELSE s.result = Some(Slice(Yielded(s.indian_reply), s.limit))

\* call 2 started, got both replies and merged them while call 1, which
\* holds another regional list, still awaits its global reply
C25_Witness_MergedWhileOtherInFlight ==
    /\ pc = "concurrent"
    /\ searches[1].pc = "await_global"
    /\ searches[1].indian_products = <<Kraft>>
    /\ searches[2].pc = "done"
    /\ searches[2].limit = 3
    /\ searches[2].all_products = <<NoBrand, Kraft, Tata, NoBrand>>
    /\ searches[2].result = Some(<<Tata, NoBrand, Kraft>>)

(***************************************************************************)
(* Vocabulary of the tracking claims                                       *)
(***************************************************************************)
HistoryAnswered ==
    /\ pc = "tracking"
    /\ req # None
    /\ req[1].op = "get"
    /\ http # None

HistoryBody == http[1].body

\* the steps of a history request in slot s: the store serves its read, and
\* the route returns
HistoryRead(s) ==
    /\ inflight[s].op = "get" /\ inflight[s].stage = "called"
    /\ inflight'[s].stage = "served"

HistoryReturns(s) ==
    /\ inflight[s].op = "get" /\ inflight[s].stage = "served"
    /\ inflight'[s].stage = "idle"

\* the entries of a user that are stored: tracked and not deleted
StoredEntries(user_id) ==
    { food_tracking[i] : i \in { j \in 1..Len(food_tracking) :
                                    food_tracking[j].user_id = user_id } }

Listed(docs) == { docs[i] : i \in 1..Len(docs) }

MostRecentFirst(docs) ==
    \A a, b \in 1..Len(docs) : a < b => docs[a].timestamp >= docs[b].timestamp

\* the stored entries of the user other than e that are at least as recent
AtLeastAsRecent(e) ==
    { o \in StoredEntries(e.user_id) \ {e} : o.timestamp >= e.timestamp }

(***************************************************************************)
(* C21, as stated: the history a request returns holds only entries of the *)
(* user that are stored (tracked and not deleted), most recent first, at   *)
(* most `limit` of them, and every stored entry of the user appears in it. *)
(***************************************************************************)
HistoryAsStated ==
    \A s \in Slots : HistoryReturns(s) =>
        /\ Listed(http'[1].body) \subseteq StoredEntries(inflight[s].user_id)
        /\ MostRecentFirst(http'[1].body)
        /\ Len(http'[1].body) <= LimitOrDefault(inflight[s].limit)
        /\ StoredEntries(inflight[s].user_id) \subseteq Listed(http'[1].body)

C21_EveryLiveEntryAppears == [][HistoryAsStated]_vars

(***************************************************************************)
(* C21, amended: the history a request returns is what the store read for  *)
(* it; it holds only entries of the user that were stored (tracked and not *)
(* deleted) when the store served the read, most recent first, at most     *)
(* `limit` of them; a stored entry of the user is among them whenever      *)
(* fewer than `limit` other stored entries of the user are at least as     *)
(* recent.  An entry is stored from the step that serves the insert of its *)
(* track request on.                                                       *)
(***************************************************************************)
HistoryAmended ==
    \A s \in Slots :
        /\ HistoryRead(s) =>
            /\ Listed(inflight'[s].docs) \subseteq StoredEntries(inflight[s].user_id)
            /\ MostRecentFirst(inflight'[s].docs)
            /\ Len(inflight'[s].docs) <= LimitOrDefault(inflight[s].limit)
            /\ \A e \in StoredEntries(inflight[s].user_id) :
                  Cardinality(AtLeastAsRecent(e)) < LimitOrDefault(inflight[s].limit)
                      => e \in Listed(inflight'[s].docs)
        /\ HistoryReturns(s) =>
            /\ http'[1].status = 200
            /\ http'[1].body = inflight[s].docs
            /\ req'[1] = TrackRequest("get", inflight[s].user_id, <<>>, inflight[s].limit)
        /\ (inflight[s].op = "track" /\ inflight[s].stage = "called"
                /\ inflight'[s].stage = "served")
              => inflight[s].entry[1] \in StoredEntries(inflight[s].user_id)'

C21_MostRecentLimitLiveEntries == [][HistoryAmended]_vars

\* two stored entries of one user with different timestamps, and a history
\* of limit 1: it holds the later entry alone
C21_Witness_LimitOneKeepsLatest ==
    /\ HistoryAnswered
    /\ req[1].user_id = "u1"
    /\ req[1].limit = Some(1)
    /\ http[1].status = 200
    /\ Len(food_tracking) = 2
    /\ food_tracking[1].user_id = "u1" /\ food_tracking[1].timestamp = 0
    /\ food_tracking[2].user_id = "u1" /\ food_tracking[2].timestamp = 1
    /\ HistoryBody = <<food_tracking[2]>>

(***************************************************************************)
(* C22: a delete request removes exactly the stored entry with its id and  *)
(* answers success; when no stored entry has the id it removes nothing and *)
(* answers 404.  No step of any operation changes an entry other than the  *)
(* one deleted.  The removal is the step of the store, the answer the step *)
(* of the route that follows it.                                           *)
(***************************************************************************)
HasEntry(collection, id) == \E i \in 1..Len(collection) : collection[i].id = id

EntriesOf(collection) == { collection[i] : i \in 1..Len(collection) }

\* the steps of a delete request in slot s
DeleteServed(s) ==
    /\ inflight[s].op = "delete" /\ inflight[s].stage = "called"
    /\ inflight'[s].stage = "served"

DeleteReturns(s) ==
    /\ inflight[s].op = "delete" /\ inflight[s].stage = "served"
    /\ inflight'[s].stage = "idle"

\* the store serves the delete of slot s: the entry with the id goes, and
\* it alone; nothing is answered yet
DeleteStep(s) ==
    LET id == inflight[s].entry_id IN
    /\ IF HasEntry(food_tracking, id)
         THEN /\ Len(food_tracking') = Len(food_tracking) - 1
              /\ ~HasEntry(food_tracking', id)
              /\ EntriesOf(food_tracking')
                   = { e \in EntriesOf(food_tracking) : e.id # id }
              /\ inflight'[s].deleted_count = 1
         ELSE /\ food_tracking' = food_tracking
              /\ inflight'[s].deleted_count = 0
    /\ req' = req /\ http' = http

\* the route answers the delete of slot s: success when its delete removed
\* the entry, 404 when there was none; the stored entries stay
DeleteAnswerStep(s) ==
    /\ req'[1] = TrackRequest("delete", "", inflight[s].entry_id, None)
    /\ IF inflight[s].deleted_count = 1
         THEN /\ http'[1].status = 200
              /\ http'[1].body = [message |-> "Tracking entry deleted successfully"]
         ELSE /\ http'[1].status = 404
              /\ http'[1].body = [detail |-> "Tracking entry not found"]
    /\ food_tracking' = food_tracking

\* every stored entry stays as it is
OtherStep ==
    /\ Len(food_tracking') >= Len(food_tracking)
    /\ \A i \in 1..Len(food_tracking) : food_tracking'[i] = food_tracking[i]

TrackingStep ==
    pc = "tracking" =>
        /\ \A s \in Slots : DeleteServed(s) => DeleteStep(s)
        /\ \A s \in Slots : DeleteReturns(s) => DeleteAnswerStep(s)
        /\ (\A s \in Slots : ~DeleteServed(s)) => OtherStep

C22_DeleteExactlyThatEntry == [][TrackingStep]_vars

\* the first of two entries of one user was deleted: success, and the
\* second entry is still stored
C22_Witness_DeletedOneOfTwo ==
    /\ pc = "tracking"
    /\ req # None
    /\ req[1].op = "delete"
    /\ req[1].entry_id = uuid4(1)
    /\ http[1].status = 200
    /\ next_uuid = 3
    /\ inflight = [s \in Slots |-> IdleSlot]
    /\ Len(food_tracking) = 1
    /\ food_tracking[1].id = uuid4(2)
    /\ food_tracking[1].user_id = "u1"
    /\ food_tracking[1].quantity = 150

(***************************************************************************)
(* The whole program                                                       *)
(***************************************************************************)
Init == InitScore \/ InitService \/ InitParse \/ InitQuery \/ InitConcurrent \/ InitTracking
Next == NextScore \/ NextService \/ NextParse \/ NextQuery \/ NextConcurrent \/ NextTracking
Spec == Init /\ [][Next]_vars

====
